---- MODULE Spec2Model ----
(***************************************************************************)
(* Model of the schedule/realtime reconciliation engine of mta-gtfs-alpic: *)
(* the GTFSService refresh cache (ensureGTFSData / ensureRealtimeData),    *)
(* the loaders behind it, the tool handlers wrapped by withErrorHandling,  *)
(* and the identifier reconciler (trip and stop-update matching).          *)
(*                                                                         *)
(* Time is in milliseconds, as Date.now().  A request is one tool call; it *)
(* runs to completion between awaits, as a JavaScript task does, so every  *)
(* action below is the code between two suspension points.                 *)
(***************************************************************************)
EXTENDS Integers, Sequences, FiniteSets, TLC

\* ------------------------------------------------------------------ bounds
NumRequests == 2
MaxTicks == 1
MaxSeqTicks == 2
MaxLoads == 3
MaxIdLen == 2
MaxUpdates == 2
MaxStopUpdates == 2
MaxStopSequence == 2
MaxSequenceLen == 2
MaxDelay == 130
MaxStops == 3
MaxProgressUpdates == 2

MaxRoutes == 2

MaxTrips == 2

MaxStopTimeRows == 2

MaxDepartureRows == 3

MaxLimit == 2

MaxShapePoints == 2

MaxStopRows == 2

MaxScheduleRows == 3

\* --------------------------------------------------------- program constants
CACHE_DURATION == 5 * 60 * 1000
REALTIME_CACHE_DURATION == 30 * 1000
NoSnapshot == 0

Requests == 1 .. NumRequests

\* Clock readings: the first Date.now() of a run and the amounts by which the
\* clock moves between tasks (a task reads one clock value).
StartTime == 2 * CACHE_DURATION
TickSteps == {REALTIME_CACHE_DURATION, CACHE_DURATION, CACHE_DURATION + REALTIME_CACHE_DURATION}
SeqTickSteps == {REALTIME_CACHE_DURATION, CACHE_DURATION}

Tools == {"get_active_routes_today", "get_trip_info"}

VARIABLES
  now,                \* Date.now()
  ticks,              \* how often the clock has moved (bounded)
  gtfsData,           \* GTFSService.gtfsData: id of the cached static snapshot
  lastDataLoad,       \* GTFSService.lastDataLoad
  realtimeData,       \* GTFSService.realtimeData: the cached live snapshot
  lastRealtimeUpdate, \* GTFSService.lastRealtimeUpdate
  req,                \* the tool calls in flight, one record per request slot
  loads,              \* history: loader invocations per store
  lastCall,           \* history: the ensure* call of each store that returned last
  lastFetch,          \* history: the fetchGTFSRealtimeData call that ended last
  delivered,          \* history: the response a tool handler returned last
  match,              \* the realtime matching of one static stop-time, step by step
  derive              \* one call of a derivation function: its input and its result

cacheVars == <<now, ticks, gtfsData, lastDataLoad, realtimeData, lastRealtimeUpdate,
               req, loads, lastCall, lastFetch, delivered>>

\* ------------------------------------------------------------ value shapes
\* GTFSRealtimeData (types.ts): trip_updates is kept as "empty or not".
NoRealtime == [id |-> NoSnapshot, empty |-> TRUE, last_updated |-> 0]

\* One invocation of ensureGTFSData / ensureRealtimeData: st is the state of
\* its promise, id the snapshot it returns (or is loading), t0 its local
\* `now`, loaded how often it called the loader; while it is suspended, seen
\* is the snapshot that was cached when it was called.
NotCalled == [st |-> "none", id |-> NoSnapshot, t0 |-> 0, seen |-> NoSnapshot,
              loaded |-> 0, msg |-> ""]

\* The fetch that ended last: the snapshot it was to produce, and whether the
\* request, the status, the body or the decoding failed.
NoFetch == [id |-> NoSnapshot, failed |-> FALSE]

\* The last response: the tool, the response, and what the facade call threw
\* (threw: the store whose ensure* call was rejected, thrown: its message).
NoResponse == [tool |-> "none", kind |-> "none", operation |-> "", message |-> "",
               threw |-> "none", thrown |-> ""]

\* What the last ensure* call of a store that returned a snapshot returned,
\* and the load time the cache recorded then.
NoCall == [any |-> FALSE, snap |-> NoSnapshot, stamp |-> 0]

\* One tool call: g1 / r1 are the snapshots getTripInfo holds in its locals
\* gtfsData / realtimeData while getTripSchedule runs.
IdleRequest == [tool |-> "none", pc |-> "idle", s |-> NotCalled, r |-> NotCalled,
                g1 |-> NoSnapshot, r1 |-> NoSnapshot]

\* A call of a derivation function: op names it, pc is "call" before it has
\* run and "done" after.
NoDerive == [op |-> "none", pc |-> "none", in |-> <<>>, out |-> <<>>]

\* -------------------------------------------------------- realtime matching
\* Identifiers are strings, here sequences of characters.
Strings(alphabet, n) == UNION {[1 .. k -> alphabet] : k \in 0 .. n}

TripIdChars == {"a", "b"}

StopIds == {<<"a">>, <<"b">>}

SequenceChars == {"1", "2", "x"}

Digits == {"0", "1", "2", "3", "4", "5", "6", "7", "8", "9"}

DigitValue(c) ==
  CASE c = "0" -> 0 [] c = "1" -> 1 [] c = "2" -> 2 [] c = "3" -> 3 [] c = "4" -> 4
    [] c = "5" -> 5 [] c = "6" -> 6 [] c = "7" -> 7 [] c = "8" -> 8 [] c = "9" -> 9

\* An optional value is the set of its values: {} when undefined.
Optional(S) == {{}} \cup {{v} : v \in S}

\* String.prototype.endsWith and includes.
EndsWith(str, suffix) ==
  /\ Len(suffix) <= Len(str)
  /\ SubSeq(str, Len(str) - Len(suffix) + 1, Len(str)) = suffix

Includes(str, part) ==
  \E k \in 1 .. Len(str) + 1 :
    /\ k + Len(part) - 1 <= Len(str)
    /\ SubSeq(str, k, k + Len(part) - 1) = part

\* parseInt of a string without leading blanks or sign: the number its
\* leading decimal digits denote, NaN (no value) when it starts with none.
RECURSIVE ParseDigits(_, _, _)
ParseDigits(str, i, acc) ==
  IF i > Len(str) \/ str[i] \notin Digits
  THEN acc
  ELSE ParseDigits(str, i + 1, acc * 10 + DigitValue(str[i]))

ParseInt(str) ==
  IF str = <<>> \/ str[1] \notin Digits THEN {} ELSE {ParseDigits(str, 1, 0)}

\* A variant of the trip predicate that accepts the live id anywhere in the
\* static id.
TripIdMatchesAnywhere(update, tripId) ==
  \E t \in update.tripId : t # <<>> /\ Includes(tripId, t)

\* The predicate of the trip find:
\* update.trip?.tripId && tripId.endsWith(update.trip.tripId).
TripIdMatches(update, tripId) ==
  \E t \in update.tripId : t # <<>> /\ EndsWith(tripId, t)

\* realtimeData.trip_updates.find(...): the index of the first update the
\* predicate accepts, undefined when it accepts none.
RECURSIVE FindTripUpdateFrom(_, _, _)
FindTripUpdateFrom(trip_updates, tripId, i) ==
  IF i > Len(trip_updates) THEN {}
  ELSE IF TripIdMatches(trip_updates[i], tripId) THEN {i}
  ELSE FindTripUpdateFrom(trip_updates, tripId, i + 1)

\* A variant of the stop predicate that wants both keys to agree.
StopUpdateMatchesBoth(stu, st) ==
  /\ \E s \in stu.stopId : s = st.stop_id
  /\ \E n \in stu.stopSequence : n \in ParseInt(st.stop_sequence)

\* The predicate of the stop find:
\* stu.stopId === st.stop_id || stu.stopSequence === parseInt(st.stop_sequence).
StopUpdateMatches(stu, st) ==
  \/ \E s \in stu.stopId : s = st.stop_id
  \/ \E n \in stu.stopSequence : n \in ParseInt(st.stop_sequence)

RECURSIVE FindStopUpdateFrom(_, _, _)
FindStopUpdateFrom(stopTimeUpdate, st, i) ==
  IF i > Len(stopTimeUpdate) THEN {}
  ELSE IF StopUpdateMatches(stopTimeUpdate[i], st) THEN {i}
  ELSE FindStopUpdateFrom(stopTimeUpdate, st, i + 1)

\* realtimeUpdate?.stopTimeUpdate?.find(...).
FindStopUpdate(trip_updates, realtimeUpdate, st) ==
  IF realtimeUpdate = {} THEN {}
  ELSE LET update == trip_updates[CHOOSE i \in realtimeUpdate : TRUE]
       IN IF update.stopTimeUpdate = {} THEN {}
          ELSE FindStopUpdateFrom(CHOOSE l \in update.stopTimeUpdate : TRUE, st, 1)

StopTimeUpdates == [stopId : Optional(StopIds), stopSequence : Optional(1 .. MaxStopSequence)]

StopTimeUpdateLists == Optional(UNION {[1 .. k -> StopTimeUpdates] : k \in 0 .. MaxStopUpdates})

StopTimes == [trip_id : Strings(TripIdChars, MaxIdLen), stop_id : StopIds,
              stop_sequence : Strings(SequenceChars, MaxSequenceLen)]

NoMatch == [pc |-> "none", st |-> [trip_id |-> <<>>, stop_id |-> <<>>, stop_sequence |-> <<>>],
            trip_updates |-> <<>>, realtimeUpdate |-> {}, stopUpdate |-> {}]

\* Feeds that vary the trip ids: up to MaxUpdates updates with any trip id
\* or none, for every static trip id.
TripFeeds ==
  UNION {[1 .. k -> [tripId : Optional(Strings(TripIdChars, MaxIdLen)),
                     stopTimeUpdate : {{}}]] : k \in 0 .. MaxUpdates}

\* Feeds that vary the per-stop updates: no update, or one update for the
\* trip with any list of per-stop updates or none.
StopFeeds(trip_id) ==
  {<<>>} \cup {<<[tripId |-> {trip_id}, stopTimeUpdate |-> l]>> : l \in StopTimeUpdateLists}

MatchInput(st, feed) == [NoMatch EXCEPT !.pc = "start", !.st = st, !.trip_updates = feed]

\* The trip find of getUpcomingDepartures, getTripSchedule and
\* calculateTripProgress for the stop-time's trip.
FindTripUpdate ==
  /\ match.pc = "start"
  /\ match' = [match EXCEPT !.pc = "trip",
                            !.realtimeUpdate =
                               FindTripUpdateFrom(match.trip_updates, match.st.trip_id, 1)]
  /\ UNCHANGED <<cacheVars, derive>>

\* The stop find on the update the trip find returned.
FindStopUpdateStep ==
  /\ match.pc = "trip"
  /\ match' = [match EXCEPT !.pc = "done",
                            !.stopUpdate =
                               FindStopUpdate(match.trip_updates, match.realtimeUpdate,
                                              match.st)]
  /\ UNCHANGED <<cacheVars, derive>>

\* ------------------------------------------------------- delay derivation
Abs(n) == IF n < 0 THEN -n ELSE n

\* The JavaScript remainder a % b for b > 0: it has the sign of a.
JsRem(a, b) == IF a < 0 THEN -(Abs(a) % b) ELSE a % b

\* A variant of formatDelay that forgets Math.abs.
FormatDelaySigned(delaySeconds) ==
  IF delaySeconds = 0 THEN "On time"
  ELSE LET minutes == delaySeconds \div 60
           seconds == JsRem(delaySeconds, 60)
       IN IF delaySeconds > 0
          THEN ToString(minutes) \o "m " \o ToString(seconds) \o "s late"
          ELSE ToString(minutes) \o "m " \o ToString(seconds) \o "s early"

\* formatDelay (realtime.ts), for an integer number of seconds.
FormatDelay(delaySeconds) ==
  IF delaySeconds = 0 THEN "On time"
  ELSE LET minutes == Abs(delaySeconds) \div 60
           seconds == Abs(delaySeconds) % 60
       IN IF delaySeconds > 0
          THEN ToString(minutes) \o "m " \o ToString(seconds) \o "s late"
          ELSE ToString(minutes) \o "m " \o ToString(seconds) \o "s early"

Delays == -MaxDelay .. MaxDelay

\* Scheduled times are "HH:MM:SS" strings, here sequences of characters.
ScheduledTimes == {<<"0", "8", ":", "3", "0", ":", "0", "0">>,
                   <<"2", "3", ":", "5", "9", ":", "3", "0">>}

\* The offset of the host's time zone from UTC in seconds: toLocaleTimeString
\* is called without a timeZone option in getRealtimeArrivalTime.
HostOffsets == {0, -18000}

\* Epoch seconds carried by a live update: 0 (which JavaScript takes for
\* false) and one later reading, small enough for its milliseconds to fit.
FeedTimes == {0, 1000000}

\* str.split(":"): the fields of str between the colons, from position i on.
RECURSIVE SplitFrom(_, _, _)
SplitFrom(str, i, field) ==
  IF i > Len(str) THEN <<field>>
  ELSE IF str[i] = ":" THEN <<field>> \o SplitFrom(str, i + 1, <<>>)
  ELSE SplitFrom(str, i + 1, Append(field, str[i]))

\* Number(field) for a field of decimal digits.
NumberOf(field) == ParseDigits(field, 1, 0)

TwoDigits(n) == <<ToString((n \div 10) % 10), ToString(n % 10)>>

\* new Date(ms).toLocaleTimeString("en-US", {hour12: false, hour: "2-digit",
\* minute: "2-digit"}) on a host whose zone is offset seconds from UTC.
LocaleTime(ms, offset) ==
  LET secs == ((ms \div 1000) + offset) % 86400
  IN TwoDigits(secs \div 3600) \o <<":">> \o TwoDigits((secs % 3600) \div 60)

\* The arrival or departure event of a per-stop update: time and delay are
\* optional numbers.
StopTimeEvents == [time : Optional(FeedTimes), delay : Optional(Delays)]

\* A variant of getRealtimeArrivalTime whose first return claims live data.
GetRealtimeArrivalTimeAlwaysLive(scheduledTime, stopTimeUpdate, offset) ==
  [time |-> scheduledTime, delay |-> {}, isRealtime |-> TRUE]

\* getRealtimeArrivalTime (realtime.ts).  stopTimeUpdate is optional and so
\* is its arrival; `if (x)` on a number is false for 0 as for undefined.
GetRealtimeArrivalTime(scheduledTime, stopTimeUpdate, offset) ==
  IF stopTimeUpdate = {} \/ (\E u \in stopTimeUpdate : u.arrival = {})
  THEN [time |-> scheduledTime, delay |-> {}, isRealtime |-> FALSE]
  ELSE LET arrival == CHOOSE a \in (CHOOSE u \in stopTimeUpdate : TRUE).arrival : TRUE
       IN IF \E t \in arrival.time : t # 0
          THEN LET t == CHOOSE t \in arrival.time : TRUE
               IN [time |-> LocaleTime(t * 1000, offset),
                   delay |-> IF \E d \in arrival.delay : d # 0
                             THEN {FormatDelay(CHOOSE d \in arrival.delay : TRUE)}
                             ELSE {},
                   isRealtime |-> TRUE]
          ELSE IF \E d \in arrival.delay : d # 0
          THEN LET d           == CHOOSE d \in arrival.delay : TRUE
                   parts       == SplitFrom(scheduledTime, 1, <<>>)
                   scheduledMs == (NumberOf(parts[1]) * 3600 + NumberOf(parts[2]) * 60
                                     + NumberOf(parts[3])) * 1000
                   adjustedMs  == scheduledMs + d * 1000
               IN [time |-> LocaleTime(adjustedMs, offset),
                   delay |-> {FormatDelay(d)},
                   isRealtime |-> TRUE]
          ELSE [time |-> scheduledTime, delay |-> {}, isRealtime |-> FALSE]

\* A variant of the delay classification that tests the delay for truth
\* before classifying it.
DepartureDelayTruthy(stopUpdate) ==
  IF stopUpdate = {} \/ (\E u \in stopUpdate : u.departure = {})
  THEN [delay_seconds |-> {}, delay_status |-> "scheduled"]
  ELSE LET departure == CHOOSE e \in (CHOOSE u \in stopUpdate : TRUE).departure : TRUE
       IN [delay_seconds |-> departure.delay,
           delay_status |-> IF \E d \in departure.delay : d > 0 THEN "late"
                            ELSE IF \E d \in departure.delay : d < 0 THEN "early"
                            ELSE "scheduled"]

\* The delay fields of one upcoming departure (getUpcomingDepartures, the map
\* callback): delaySeconds and delayStatus.
DepartureDelay(stopUpdate) ==
  IF stopUpdate = {} \/ (\E u \in stopUpdate : u.departure = {})
  THEN [delay_seconds |-> {}, delay_status |-> "scheduled"]
  ELSE LET departure == CHOOSE e \in (CHOOSE u \in stopUpdate : TRUE).departure : TRUE
       IN IF departure.delay = {}
          THEN [delay_seconds |-> {}, delay_status |-> "scheduled"]
          ELSE LET delaySeconds == CHOOSE d \in departure.delay : TRUE
               IN [delay_seconds |-> {delaySeconds},
                   delay_status |-> IF delaySeconds = 0 THEN "on_time"
                                    ELSE IF delaySeconds > 0 THEN "late"
                                    ELSE "early"]

\* The derivation calls, each from "call" to "done".
FormatDelayCall ==
  /\ derive.op = "formatDelay" /\ derive.pc = "call"
  /\ derive' = [derive EXCEPT !.pc = "done", !.out = FormatDelay(derive.in)]
  /\ UNCHANGED <<cacheVars, match>>

RealtimeArrivalCall ==
  /\ derive.op = "getRealtimeArrivalTime" /\ derive.pc = "call"
  /\ derive' = [derive EXCEPT !.pc = "done",
                              !.out = GetRealtimeArrivalTime(derive.in.scheduledTime,
                                                             derive.in.stopTimeUpdate,
                                                             derive.in.offset)]
  /\ UNCHANGED <<cacheVars, match>>

DepartureDelayCall ==
  /\ derive.op = "departureDelay" /\ derive.pc = "call"
  /\ derive' = [derive EXCEPT !.pc = "done", !.out = DepartureDelay(derive.in)]
  /\ UNCHANGED <<cacheVars, match>>

\* ------------------------------------------------------------ trip progress
\* array.sort(compare) for a comparator that is a strict weak order, where
\* before[i][j] says that compare(seq[i], seq[j]) < 0: the elements in
\* order, equal ones in their original order (the sort is stable).
SortBy(seq, before) ==
  LET n      == Len(seq)
      pos(i) == 1 + Cardinality({j \in 1 .. n : \/ before[j][i]
                                                \/ j < i /\ ~before[i][j]})
  IN [k \in 1 .. n |-> seq[CHOOSE i \in 1 .. n : pos(i) = k]]

\* array.filter(predicate), where keep[i] is the predicate's value on seq[i].
RECURSIVE FilterFrom(_, _, _)
FilterFrom(seq, keep, i) ==
  IF i > Len(seq) THEN <<>>
  ELSE IF keep[i] THEN <<seq[i]>> \o FilterFrom(seq, keep, i + 1)
  ELSE FilterFrom(seq, keep, i + 1)

\* A JavaScript number is the set of its values: {} is NaN.
\* parseFloat of a string of decimal digits, NaN for any other string drawn.
ParseFloat(str) == ParseInt(str)

\* shape_distance_traveled of a stop-time: undefined, unparseable, or digits.
DistanceStrings == Optional({<<"x">>, <<"1">>, <<"2">>, <<"3">>})

\* The clock of calculateTripProgress, Math.floor(Date.now() / 1000), and the
\* live times before and after it.
NowSeconds == 1000000

PastTime == NowSeconds - 60

FutureTime == NowSeconds + 60

\* The stop of the trip at position i, and the stops table: only the first
\* two stops have a row.
StopIdAt(i) == <<"s", ToString(i)>>

StopNames == [stop_id \in {StopIdAt(1), StopIdAt(2)} |-> <<"N">> \o stop_id]

StopNameOf(stop_id) == IF stop_id \in DOMAIN StopNames THEN {StopNames[stop_id]} ELSE {}

\* A rational progress value before rounding, or NaN.
Ratio(num, den) == [nan |-> FALSE, num |-> num, den |-> den]

NotANumber == [nan |-> TRUE, num |-> 0, den |-> 1]

\* Math.round(x): the integer nearest to x, halves rounded up; NaN stays NaN.
MathRound(x) == IF x.nan THEN {} ELSE {(2 * x.num + x.den) \div (2 * x.den)}

\* Math.min(x, 100); NaN stays NaN.
MathMin100(x) == IF x.nan THEN x ELSE IF x.num > 100 * x.den THEN Ratio(100, 1) ELSE x

\* Math.min(a, b) and Math.max(a, b) on integers.
Min(a, b) == IF a < b THEN a ELSE b

Max(a, b) == IF a > b THEN a ELSE b

\* stopUpdate?.departure?.time && time < now (and the same for arrival).
EventInPast(stopUpdate, list, field) ==
  \E i \in stopUpdate : \E e \in list[i][field] : \E t \in e.time : t # 0 /\ t < NowSeconds

\* A scan that tests the arrival before the departure.
RECURSIVE ScanCurrentStopArrivalFirst(_, _, _, _)
ScanCurrentStopArrivalFirst(tripStopTimes, list, i, currentStopIndex) ==
  IF i > Len(tripStopTimes) THEN currentStopIndex
  ELSE LET stopUpdate == FindStopUpdateFrom(list, tripStopTimes[i], 1)
       IN IF EventInPast(stopUpdate, list, "arrival")
          THEN i - 1
          ELSE IF EventInPast(stopUpdate, list, "departure")
          THEN ScanCurrentStopArrivalFirst(tripStopTimes, list, i + 1,
                                           IF i < Len(tripStopTimes) - 1 THEN i
                                           ELSE Len(tripStopTimes) - 1)
          ELSE ScanCurrentStopArrivalFirst(tripStopTimes, list, i + 1, currentStopIndex)

\* The scan for the current stop: tripStopTimes[i] is the stop-time at index
\* i - 1 of the code.
RECURSIVE ScanCurrentStop(_, _, _, _)
ScanCurrentStop(tripStopTimes, list, i, currentStopIndex) ==
  IF i > Len(tripStopTimes) THEN currentStopIndex
  ELSE LET stopUpdate == FindStopUpdateFrom(list, tripStopTimes[i], 1)
       IN IF EventInPast(stopUpdate, list, "departure")
          THEN ScanCurrentStop(tripStopTimes, list, i + 1,
                               Min(i, Len(tripStopTimes) - 1))
          ELSE IF EventInPast(stopUpdate, list, "arrival")
          THEN i - 1
          ELSE ScanCurrentStop(tripStopTimes, list, i + 1, currentStopIndex)

\* The progress before rounding: by distance when the current, first and last
\* stop-times all have a non-empty distance string, else by index.
ProgressValue(tripStopTimes, currentStopIndex) ==
  LET n       == Len(tripStopTimes)
      current == tripStopTimes[currentStopIndex + 1].shape_distance_traveled
      first   == tripStopTimes[1].shape_distance_traveled
      last    == tripStopTimes[n].shape_distance_traveled
  IN IF current # {} /\ first # {} /\ last # {}
     THEN LET currentDistance == ParseFloat(CHOOSE d \in current : TRUE)
              startDistance   == ParseFloat(CHOOSE d \in first : TRUE)
              lastDistance    == ParseFloat(CHOOSE d \in last : TRUE)
          IN IF startDistance = {} \/ lastDistance = {}
             THEN Ratio(0, 1)
             ELSE LET start == CHOOSE d \in startDistance : TRUE
                      total == (CHOOSE d \in lastDistance : TRUE) - start
                  IN IF total > 0
                     THEN IF currentDistance = {} THEN NotANumber
                          ELSE Ratio(((CHOOSE d \in currentDistance : TRUE) - start) * 100,
                                     total)
                     ELSE Ratio(0, 1)
     ELSE Ratio(currentStopIndex * 100, Max(n - 1, 1))

\* The stop-times of a trip ordered by the text of stop_sequence.
TripStopTimesTextual(stopTimes, tripId) ==
  LET ofTrip == FilterFrom(stopTimes,
                           [i \in DOMAIN stopTimes |-> stopTimes[i].trip_id = tripId], 1)
  IN SortBy(ofTrip, [i \in DOMAIN ofTrip |->
                       [j \in DOMAIN ofTrip |->
                          \E k \in 1 .. Len(ofTrip[j].stop_sequence) :
                            /\ SubSeq(ofTrip[i].stop_sequence, 1, k - 1)
                                 = SubSeq(ofTrip[j].stop_sequence, 1, k - 1)
                            /\ \/ Len(ofTrip[i].stop_sequence) < k
                               \/ /\ ofTrip[i].stop_sequence[k] \in Digits
                                  /\ ofTrip[j].stop_sequence[k] \in Digits
                                  /\ DigitValue(ofTrip[i].stop_sequence[k])
                                       < DigitValue(ofTrip[j].stop_sequence[k])]])

\* tripStopTimes of getTripSchedule and of calculateTripProgress: the
\* stop-times of the trip, sorted by parseInt(stop_sequence).
TripStopTimes(stopTimes, tripId) ==
  LET ofTrip == FilterFrom(stopTimes,
                           [i \in DOMAIN stopTimes |-> stopTimes[i].trip_id = tripId], 1)
      Before(a, b) == \E x \in ParseInt(a.stop_sequence), y \in ParseInt(b.stop_sequence) :
                        x < y
  IN SortBy(ofTrip, [i \in DOMAIN ofTrip |->
                       [j \in DOMAIN ofTrip |-> Before(ofTrip[i], ofTrip[j])]])

NoProgress == [isNull |-> TRUE, progress |-> {}, currentStop |-> {}, nextStop |-> {}]

\* calculateTripProgress (gtfs-service.ts); its result is null or a record.
CalculateTripProgress(tripId, stopTimes, trip_updates) ==
  LET tripStopTimes == TripStopTimes(stopTimes, tripId)
      n             == Len(tripStopTimes)
      realtimeUpdate == FindTripUpdateFrom(trip_updates, tripId, 1)
  IN IF n = 0 THEN NoProgress
     ELSE IF realtimeUpdate = {}
             \/ \E u \in realtimeUpdate : trip_updates[u].stopTimeUpdate = {}
     THEN NoProgress
     ELSE LET list == CHOOSE l \in trip_updates[CHOOSE u \in realtimeUpdate : TRUE]
                                     .stopTimeUpdate : TRUE
              currentStopIndex == ScanCurrentStop(tripStopTimes, list, 1, 0)
              nextStopIndex    == Min(currentStopIndex + 1, n - 1)
              currentStopName  == StopNameOf(tripStopTimes[currentStopIndex + 1].stop_id)
              nextStopName     == StopNameOf(tripStopTimes[nextStopIndex + 1].stop_id)
          IN [isNull |-> FALSE,
              progress |-> MathRound(MathMin100(ProgressValue(tripStopTimes,
                                                              currentStopIndex))),
              currentStop |-> currentStopName,
              nextStop |-> IF currentStopIndex < n - 1 THEN nextStopName
                           ELSE currentStopName]

\* The progress fields of the TripInfo that getTripInfo builds from the
\* result: progress?.progress, progress?.currentStop, progress?.nextStop.
TripInfoProgress(progress) ==
  [progress_percentage |-> [defined |-> ~progress.isNull, value |-> progress.progress],
   current_stop |-> progress.currentStop,
   next_stop |-> progress.nextStop]

\* The inputs drawn for calculateTripProgress: a row of another trip, then
\* the rows of the trip in stop order with any distance strings; no trip
\* update, or one for the trip with any list of per-stop updates or none.
ProgressTripId == <<"a", "b">>

ProgressStopTimes ==
  UNION {{<<[trip_id |-> <<"b">>, stop_id |-> StopIdAt(1), stop_sequence |-> <<"1">>,
             shape_distance_traveled |-> {}]>>
            \o [i \in 1 .. n |-> [trip_id |-> ProgressTripId, stop_id |-> StopIdAt(i),
                                  stop_sequence |-> <<ToString(i)>>,
                                  shape_distance_traveled |-> d[i]]] :
          d \in [1 .. n -> DistanceStrings]} : n \in 0 .. MaxStops}

ProgressEvents == Optional([time : Optional({PastTime, FutureTime}) \ {{}}, delay : {{}}])

ProgressStopUpdates ==
  [stopId : {{StopIdAt(1)}, {StopIdAt(2)}}, stopSequence : {{}},
   arrival : ProgressEvents, departure : ProgressEvents]

ProgressFeeds ==
  {<<>>} \cup
  {<<[tripId |-> {<<"b">>}, stopTimeUpdate |-> l]>> :
     l \in Optional(UNION {[1 .. k -> ProgressStopUpdates] : k \in 0 .. MaxProgressUpdates})}

CalculateTripProgressCall ==
  /\ derive.op = "calculateTripProgress" /\ derive.pc = "call"
  /\ derive' = [derive EXCEPT
                  !.pc = "done",
                  !.out = TripInfoProgress(CalculateTripProgress(derive.in.tripId,
                                                                 derive.in.stopTimes,
                                                                 derive.in.trip_updates))]
  /\ UNCHANGED <<cacheVars, match>>

\* ------------------------------------------------------------ refresh cache
\* Variants of the staleness tests: one that never expires a snapshot, one
\* that expires it at the boundary already.
StaleStaticNoTtl(t) == gtfsData = NoSnapshot

StaleStaticAtBoundary(t) == gtfsData = NoSnapshot \/ t - lastDataLoad >= CACHE_DURATION

StaleStatic(t) == gtfsData = NoSnapshot \/ t - lastDataLoad > CACHE_DURATION

StaleRealtime(t) ==
  realtimeData.id = NoSnapshot \/ t - lastRealtimeUpdate > REALTIME_CACHE_DURATION

\* A variant of ensureGTFSData that joins a load already in flight instead of
\* starting its own.
CallEnsureGTFSDataCoalesced(t) ==
  IF StaleStatic(t)
  THEN IF \E q \in Requests : req[q].s.st = "pending"
       THEN LET q == CHOOSE q \in Requests : req[q].s.st = "pending"
            IN [req[q].s EXCEPT !.t0 = t, !.loaded = 0]
       ELSE [st |-> "pending", id |-> loads.static + 1, t0 |-> t, seen |-> gtfsData,
             loaded |-> 1, msg |-> ""]
  ELSE [NotCalled EXCEPT !.st = "ok", !.id = gtfsData, !.t0 = t]

\* ensureGTFSData up to its first await (or its return, when the cache is fresh).
CallEnsureGTFSData(t) ==
  IF StaleStatic(t)
  THEN [st |-> "pending", id |-> loads.static + 1, t0 |-> t, seen |-> gtfsData,
        loaded |-> 1, msg |-> ""]
  ELSE [NotCalled EXCEPT !.st = "ok", !.id = gtfsData, !.t0 = t]

\* ensureRealtimeData up to its first await (or its return).
CallEnsureRealtimeData(t) ==
  IF StaleRealtime(t)
  THEN [st |-> "pending", id |-> loads.live + 1, t0 |-> t, seen |-> realtimeData.id,
        loaded |-> 1, msg |-> ""]
  ELSE [NotCalled EXCEPT !.st = "ok", !.id = realtimeData.id, !.t0 = t]

\* The history record of a call that has returned snapshot c.id.
Logged(c, stampNow) == [any |-> TRUE, snap |-> c.id, stamp |-> stampNow]

\* Book-keeping of the calls sc (static) and rc (live) that a task has just made.
Invoke(sc, rc) ==
  /\ loads' = [static |-> loads.static + sc.loaded, live |-> loads.live + rc.loaded]
  /\ lastCall' = [static |-> IF sc.st = "ok" THEN Logged(sc, lastDataLoad)
                             ELSE lastCall.static,
                  live   |-> IF rc.st = "ok" THEN Logged(rc, lastRealtimeUpdate)
                             ELSE lastCall.live]

\* A slot is free once its handler has returned and no load it began is left.
Idle(p) == req[p].pc = "idle" /\ req[p].s.st # "pending" /\ req[p].r.st # "pending"

HeadRoom == loads.static + 2 <= MaxLoads /\ loads.live + 2 <= MaxLoads

\* A tool handler starts: the facade operation runs to its first
\* `await Promise.all([this.ensureGTFSData(), this.ensureRealtimeData()])`.
Start(p) ==
  /\ Idle(p)
  /\ HeadRoom
  /\ \E tool \in Tools :
       LET sc == CallEnsureGTFSData(now)
           rc == CallEnsureRealtimeData(now)
       IN /\ req' = [req EXCEPT ![p] = [IdleRequest EXCEPT !.tool = tool, !.pc = "awaitAll",
                                                           !.s = sc, !.r = rc]]
          /\ Invoke(sc, rc)
  /\ UNCHANGED <<now, ticks, gtfsData, lastDataLoad, realtimeData, lastRealtimeUpdate,
                 lastFetch, delivered, match, derive>>

\* ------------------------------------------------------------------ loaders
LoadOutcomes == {"ok", "missing_file", "parse_error"}

\* loadGTFSData (static.ts): all seven tables parse, or the first failure is
\* logged and rethrown.  readFileSync and parseCSVFile both fail with an Error.
LoadGTFSData(outcome, id) ==
  IF outcome = "ok"
  THEN [threw |-> FALSE, data |-> id, error |-> [isError |-> FALSE, message |-> ""]]
  ELSE [threw |-> TRUE, data |-> NoSnapshot,
        error |-> [isError |-> TRUE,
                   message |-> IF outcome = "missing_file"
                               THEN "ENOENT: no such file or directory"
                               ELSE "Error parsing stop_times.txt"]]

FetchOutcomes == {"ok", "network_error", "http_error", "body_error", "decode_error"}

\* A decoded feed: whether it carries trip updates, and header.timestamp in
\* epoch seconds (0: no header timestamp).
Feeds(t0) == [empty : BOOLEAN, timestamp : {0, t0 \div 1000}]

\* A variant of fetchGTFSRealtimeData whose catch block rethrows the decoder's
\* error.
FetchGTFSRealtimeDataRethrows(outcome, id, feed, t) ==
  IF outcome = "ok"
  THEN [threw |-> FALSE,
        data |-> [id |-> id, empty |-> feed.empty,
                  last_updated |-> IF feed.timestamp # 0 THEN feed.timestamp * 1000 ELSE t],
        error |-> [isError |-> FALSE, message |-> ""]]
  ELSE IF outcome = "decode_error"
  THEN [threw |-> TRUE, data |-> NoRealtime,
        error |-> [isError |-> TRUE, message |-> "Failed to parse GTFS realtime data"]]
  ELSE [threw |-> FALSE,
        data |-> [id |-> id, empty |-> TRUE, last_updated |-> t],
        error |-> [isError |-> FALSE, message |-> ""]]

\* fetchGTFSRealtimeData (realtime.ts): fetch, status check, arrayBuffer and
\* decode sit in one try block whose catch returns the empty feed.
FetchGTFSRealtimeData(outcome, id, feed, t) ==
  IF outcome = "ok"
  THEN [threw |-> FALSE,
        data |-> [id |-> id, empty |-> feed.empty,
                  last_updated |-> IF feed.timestamp # 0 THEN feed.timestamp * 1000 ELSE t],
        error |-> [isError |-> FALSE, message |-> ""]]
  ELSE [threw |-> FALSE,
        data |-> [id |-> id, empty |-> TRUE, last_updated |-> t],
        error |-> [isError |-> FALSE, message |-> ""]]

\* The call c after its await: it returns the snapshot it loaded, or throws.
Returned(c) == [NotCalled EXCEPT !.st = "ok", !.id = c.id, !.t0 = c.t0, !.loaded = c.loaded]

\* A variant in which a call whose load failed returns the snapshot that was
\* cached when it was called.
ThrownServesCached(c, error) ==
  [NotCalled EXCEPT !.st = "ok", !.id = c.seen, !.t0 = c.t0, !.loaded = c.loaded]

Thrown(c, error) == [NotCalled EXCEPT !.st = "err", !.loaded = c.loaded, !.msg = error.message]

\* A handler that has returned keeps nothing but the loads still in flight,
\* whose continuations run whether or not anyone awaits them.
Settle(r) == IF r.pc = "idle"
             THEN [IdleRequest EXCEPT !.s = IF r.s.st = "pending" THEN r.s ELSE NotCalled,
                                      !.r = IF r.r.st = "pending" THEN r.r ELSE NotCalled]
             ELSE r

\* The two assignments of ensureGTFSData after its await.
StoreStatic(c, data) ==
  /\ gtfsData' = data
  /\ lastDataLoad' = c.t0
  /\ UNCHANGED <<realtimeData, lastRealtimeUpdate>>

\* A variant of ensureRealtimeData's assignments that stamps the static
\* store's load time too.
StoreRealtimeSharedStamp(c, data) ==
  /\ realtimeData' = data
  /\ lastRealtimeUpdate' = c.t0
  /\ lastDataLoad' = c.t0
  /\ UNCHANGED gtfsData

\* The two assignments of ensureRealtimeData after its await.
StoreRealtime(c, data) ==
  /\ realtimeData' = data
  /\ lastRealtimeUpdate' = c.t0
  /\ UNCHANGED <<gtfsData, lastDataLoad>>

\* ensureGTFSData after `await loadGTFSData()`: store the snapshot and the
\* `now` read before the load; a rejected load rejects the call.
StaticLoadDone(p) ==
  /\ req[p].s.st = "pending"
  /\ \E outcome \in LoadOutcomes :
       LET c   == req[p].s
           res == LoadGTFSData(outcome, c.id)
       IN IF res.threw
          THEN /\ req' = [req EXCEPT ![p] = Settle([@ EXCEPT !.s = Thrown(c, res.error)])]
               /\ UNCHANGED <<gtfsData, lastDataLoad, realtimeData, lastRealtimeUpdate,
                              lastCall>>
          ELSE /\ StoreStatic(c, res.data)
               /\ req' = [req EXCEPT ![p] = Settle([@ EXCEPT !.s = Returned(c)])]
               /\ lastCall' = [lastCall EXCEPT !.static = Logged(c, c.t0)]
  /\ UNCHANGED <<now, ticks, loads, lastFetch, delivered, match, derive>>

\* ensureRealtimeData after `await fetchGTFSRealtimeData()`.
LiveFetchDone(p) ==
  /\ req[p].r.st = "pending"
  /\ \E outcome \in FetchOutcomes, feed \in Feeds(req[p].r.t0) :
       LET c   == req[p].r
           res == FetchGTFSRealtimeData(outcome, c.id, feed, now)
       IN /\ lastFetch' = [id |-> c.id, failed |-> outcome # "ok"]
          /\ IF res.threw
             THEN /\ req' = [req EXCEPT ![p] = Settle([@ EXCEPT !.r = Thrown(c, res.error)])]
                  /\ UNCHANGED <<gtfsData, lastDataLoad, realtimeData, lastRealtimeUpdate,
                                 lastCall>>
             ELSE /\ StoreRealtime(c, res.data)
                  /\ req' = [req EXCEPT ![p] = Settle([@ EXCEPT !.r = Returned(c)])]
                  /\ lastCall' = [lastCall EXCEPT !.live = Logged(c, c.t0)]
  /\ UNCHANGED <<now, ticks, loads, delivered, match, derive>>

\* -------------------------------------------------------------- tool layer
OperationOf(tool) ==
  CASE tool = "get_active_routes_today" -> "fetching active routes"
    [] tool = "get_trip_info"           -> "fetching trip information"
    [] tool = "get_route_info"          -> "fetching route information"
    [] tool = "get_stop_info"           -> "fetching stop information"
    [] OTHER                            -> ""

\* A variant of errorResponse that drops the Error's message.
ErrorResponseGeneric(operation, error) ==
  [kind |-> "error", operation |-> operation, message |-> "Unknown error"]

\* errorResponse (responses): error = true, the operation, the Error's message.
ErrorResponse(operation, error) ==
  [kind |-> "error", operation |-> operation,
   message |-> IF error.isError THEN error.message ELSE "Unknown error"]

JsonResponse == [kind |-> "json", operation |-> "", message |-> ""]

NotFoundResponse == [kind |-> "not_found", operation |-> "", message |-> ""]

\* Promise.all over the calls of request p: rejected with the first rejection,
\* fulfilled once every call has a value.
Rejected(p) == req[p].s.st = "err" \/ req[p].r.st = "err"

Fulfilled(p) == ~Rejected(p) /\ req[p].s.st # "pending" /\ req[p].r.st # "pending"

Awaiting(p) == req[p].pc \in {"awaitAll", "awaitNested"}

\* The handler of request p returns response resp.
Respond(p, resp) ==
  /\ req' = [req EXCEPT ![p] = Settle([@ EXCEPT !.pc = "idle"])]
  /\ delivered' = [tool |-> req[p].tool, kind |-> resp.kind, operation |-> resp.operation,
                   message |-> resp.message,
                   threw |-> IF req[p].s.st = "err" THEN "static"
                             ELSE IF req[p].r.st = "err" THEN "live" ELSE "none",
                   thrown |-> IF req[p].s.st = "err" THEN req[p].s.msg
                              ELSE IF req[p].r.st = "err" THEN req[p].r.msg ELSE ""]
  /\ UNCHANGED <<now, ticks, gtfsData, lastDataLoad, realtimeData, lastRealtimeUpdate,
                 loads, lastCall, lastFetch, match, derive>>

\* withErrorHandling's catch: the awaited facade call threw.
HandlerCatches(p) ==
  /\ Awaiting(p)
  /\ Rejected(p)
  /\ LET c   == IF req[p].s.st = "err" THEN req[p].s ELSE req[p].r
         err == [isError |-> TRUE, message |-> c.msg]
     IN Respond(p, ErrorResponse(OperationOf(req[p].tool), err))

\* getActiveRoutesToday resumes with its pair of snapshots and returns; the
\* handler answers with the route list.
ActiveRoutesReturn(p) ==
  /\ req[p].tool = "get_active_routes_today"
  /\ req[p].pc = "awaitAll"
  /\ Fulfilled(p)
  /\ Respond(p, JsonResponse)

\* getTripInfo after its own Promise.all: an unknown trip returns null; else
\* has_realtime_data and delay_seconds are taken from the pair just obtained,
\* which stays in the locals gtfsData / realtimeData, and getTripSchedule is
\* called in the same task: it asks the cache again.
TripInfoLookup(p) ==
  /\ req[p].tool = "get_trip_info"
  /\ req[p].pc = "awaitAll"
  /\ Fulfilled(p)
  /\ \E found \in BOOLEAN :
       IF found
       THEN LET sc == CallEnsureGTFSData(now)
                rc == CallEnsureRealtimeData(now)
            IN /\ req' = [req EXCEPT ![p] = [@ EXCEPT !.pc = "awaitNested",
                                                        !.g1 = req[p].s.id, !.r1 = req[p].r.id,
                                                        !.s = sc, !.r = rc]]
               /\ Invoke(sc, rc)
               /\ UNCHANGED <<now, ticks, gtfsData, lastDataLoad, realtimeData,
                              lastRealtimeUpdate, lastFetch, delivered, match, derive>>
       ELSE Respond(p, NotFoundResponse)

\* getTripSchedule resumes with its own pair and builds stop_schedule;
\* getTripInfo then computes the progress from the pair in its locals and
\* returns.
TripInfoReturn(p) ==
  /\ req[p].tool = "get_trip_info"
  /\ req[p].pc = "awaitNested"
  /\ Fulfilled(p)
  /\ Respond(p, JsonResponse)

Tick ==
  /\ ticks < MaxTicks
  /\ \E d \in TickSteps : now' = now + d
  /\ ticks' = ticks + 1
  /\ UNCHANGED <<gtfsData, lastDataLoad, realtimeData, lastRealtimeUpdate, req, loads,
                 lastCall, lastFetch, delivered, match, derive>>

Init ==
  /\ now = StartTime
  /\ ticks = 0
  /\ gtfsData = NoSnapshot
  /\ lastDataLoad = 0
  /\ realtimeData = NoRealtime
  /\ lastRealtimeUpdate = 0
  /\ req = [p \in Requests |-> IdleRequest]
  /\ loads = [static |-> 0, live |-> 0]
  /\ lastCall = [static |-> NoCall, live |-> NoCall]
  /\ lastFetch = NoFetch
  /\ delivered = NoResponse
  /\ match = NoMatch
  /\ derive = NoDerive

Next ==
  \/ \E p \in Requests : Start(p)
  \/ \E p \in Requests : StaticLoadDone(p)
  \/ \E p \in Requests : LiveFetchDone(p)
  \/ \E p \in Requests : HandlerCatches(p)
  \/ \E p \in Requests : ActiveRoutesReturn(p)
  \/ \E p \in Requests : TripInfoLookup(p)
  \/ \E p \in Requests : TripInfoReturn(p)
  \/ Tick

vars == <<cacheVars, match, derive>>

\* Tool calls arrive at any time: their tasks interleave at every await.
Spec == Init /\ [][Next]_vars

\* Every task that is ready runs, and a file read ends; nothing bounds the
\* time the network takes to answer (fetch is called without a timeout or an
\* abort signal), so LiveFetchDone carries no fairness.
Fairness ==
  \A p \in Requests :
    /\ WF_vars(StaticLoadDone(p))
    /\ WF_vars(HandlerCatches(p))
    /\ WF_vars(ActiveRoutesReturn(p))
    /\ WF_vars(TripInfoLookup(p))
    /\ WF_vars(TripInfoReturn(p))

FairSpec == Init /\ [][Next]_vars /\ Fairness

\* Non-overlapping calls: a tool call starts only when no other call and no
\* load is in flight; the clock may move further.
StartSeq(p) ==
  /\ \A q \in Requests : Idle(q)
  /\ Start(p)

SeqTick ==
  /\ ticks < MaxSeqTicks
  /\ \E d \in SeqTickSteps : now' = now + d
  /\ ticks' = ticks + 1
  /\ UNCHANGED <<gtfsData, lastDataLoad, realtimeData, lastRealtimeUpdate, req, loads,
                 lastCall, lastFetch, delivered, match, derive>>

NextSeq ==
  \/ \E p \in Requests : StartSeq(p)
  \/ \E p \in Requests : StaticLoadDone(p)
  \/ \E p \in Requests : LiveFetchDone(p)
  \/ \E p \in Requests : HandlerCatches(p)
  \/ \E p \in Requests : ActiveRoutesReturn(p)
  \/ \E p \in Requests : TripInfoLookup(p)
  \/ \E p \in Requests : TripInfoReturn(p)
  \/ SeqTick

SeqSpec == Init /\ [][NextSeq]_vars

\* The matching functions applied to every static stop-time and feed drawn
\* from the bounded sets; the stores play no part.
MatchInit ==
  /\ now = StartTime
  /\ ticks = 0
  /\ gtfsData = NoSnapshot
  /\ lastDataLoad = 0
  /\ realtimeData = NoRealtime
  /\ lastRealtimeUpdate = 0
  /\ req = [p \in Requests |-> IdleRequest]
  /\ loads = [static |-> 0, live |-> 0]
  /\ lastCall = [static |-> NoCall, live |-> NoCall]
  /\ lastFetch = NoFetch
  /\ delivered = NoResponse
  /\ derive = NoDerive
  /\ \/ \E trip_id \in Strings(TripIdChars, MaxIdLen), feed \in TripFeeds :
          match = MatchInput([trip_id |-> trip_id, stop_id |-> <<"a">>,
                              stop_sequence |-> <<"1">>], feed)
     \/ \E st \in StopTimes, feed \in StopFeeds(<<"b">>) :
          st.trip_id = <<"a", "b">> /\ match = MatchInput(st, feed)

MatchNext ==
  \/ FindTripUpdate
  \/ FindStopUpdateStep

MatchSpec == MatchInit /\ [][MatchNext]_vars

\* The cache and the matching at rest, for the specifications that apply the
\* derivation functions.
AtRest ==
  /\ now = StartTime
  /\ ticks = 0
  /\ gtfsData = NoSnapshot
  /\ lastDataLoad = 0
  /\ realtimeData = NoRealtime
  /\ lastRealtimeUpdate = 0
  /\ req = [p \in Requests |-> IdleRequest]
  /\ loads = [static |-> 0, live |-> 0]
  /\ lastCall = [static |-> NoCall, live |-> NoCall]
  /\ lastFetch = NoFetch
  /\ delivered = NoResponse
  /\ match = NoMatch

Call(op, in) == [NoDerive EXCEPT !.op = op, !.pc = "call", !.in = in]

\* formatDelay, getRealtimeArrivalTime and the delay classification applied
\* to every input drawn from the bounded sets.
DelayInit ==
  /\ AtRest
  /\ \/ \E d \in Delays : derive = Call("formatDelay", d)
     \/ \E scheduledTime \in ScheduledTimes, offset \in HostOffsets,
           stopTimeUpdate \in Optional([arrival : Optional(StopTimeEvents)]) :
          derive = Call("getRealtimeArrivalTime",
                        [scheduledTime |-> scheduledTime, stopTimeUpdate |-> stopTimeUpdate,
                         offset |-> offset])
     \/ \E stopUpdate \in Optional([departure : Optional(StopTimeEvents)]) :
          derive = Call("departureDelay", stopUpdate)

DelayNext ==
  \/ FormatDelayCall
  \/ RealtimeArrivalCall
  \/ DepartureDelayCall

DelaySpec == DelayInit /\ [][DelayNext]_vars

\* ------------------------------------------------------------ route listing
\* a.localeCompare(b) < 0 for the strings drawn: punctuation sorts before
\* digits, digits before letters and "a" before "B" (the collation ignores
\* case before it breaks ties), where the code-unit order has "B" before "a"
\* and ":" after the digits.
CollationRank(c) ==
  IF c \in Digits THEN DigitValue(c)
  ELSE IF c = ":" THEN 0 - 1
  ELSE IF c = "a" THEN 11
  ELSE 12

RECURSIVE LocaleBeforeFrom(_, _, _)
LocaleBeforeFrom(a, b, i) ==
  IF i > Len(b) THEN FALSE
  ELSE IF i > Len(a) THEN TRUE
  ELSE IF CollationRank(a[i]) # CollationRank(b[i])
  THEN CollationRank(a[i]) < CollationRank(b[i])
  ELSE LocaleBeforeFrom(a, b, i + 1)

LocaleBefore(a, b) == LocaleBeforeFrom(a, b, 1)

\* Today in Eastern time, as isServiceActiveTodayEastern derives it: the
\* date (dates are numbered in calendar order) and the day field.
Today == [date |-> 2, dayField |-> "wednesday"]

\* isServiceActiveTodayEastern (timezone.ts).
IsServiceActiveTodayEastern(calendar) ==
  IF Today.date < calendar.start_date \/ Today.date > calendar.end_date
  THEN FALSE
  ELSE calendar[Today.dayField] = "1"

\* The service ids of the calendar rows active today.
ActiveServices(calendar) ==
  {calendar[i].service_id : i \in {j \in DOMAIN calendar : IsServiceActiveTodayEastern(calendar[j])}}

\* tripsByRoute.get(routeId) || [], as the positions of the trips.
TripsByRoute(routeId, trips) == {i \in DOMAIN trips : trips[i].route_id = routeId}

\* A route's stop count taken as the number of its stop-time rows.
StopIdsByRouteRows(routeId, trips, stopTimes) ==
  {i \in DOMAIN stopTimes :
     \E t \in TripsByRoute(routeId, trips) : trips[t].trip_id = stopTimes[i].trip_id}

\* stopIdsByRoute.get(routeId) || new Set().
StopIdsByRoute(routeId, trips, stopTimes) ==
  {stopTimes[i].stop_id :
     i \in {j \in DOMAIN stopTimes :
              \E t \in TripsByRoute(routeId, trips) : trips[t].trip_id = stopTimes[j].trip_id}}

\* getActiveRoutesToday on a static snapshot.
GetActiveRoutesToday(gtfs) ==
  LET activeServices == ActiveServices(gtfs.calendar)
      activeRouteIds == {gtfs.trips[i].route_id :
                           i \in {j \in DOMAIN gtfs.trips :
                                    gtfs.trips[j].service_id \in activeServices}}
      routeInfos ==
        [i \in DOMAIN gtfs.routes |->
           [route_id |-> gtfs.routes[i].route_id,
            route_short_name |-> gtfs.routes[i].route_short_name,
            stop_count |-> Cardinality(StopIdsByRoute(gtfs.routes[i].route_id,
                                                      gtfs.trips, gtfs.stopTimes)),
            trip_count |-> Cardinality(TripsByRoute(gtfs.routes[i].route_id, gtfs.trips)),
            is_active |-> gtfs.routes[i].route_id \in activeRouteIds]]
  IN SortBy(routeInfos,
            [i \in DOMAIN routeInfos |->
               [j \in DOMAIN routeInfos |->
                  LocaleBefore(routeInfos[i].route_short_name,
                               routeInfos[j].route_short_name)]])

\* The snapshots drawn: routes r1, r2, ... with any of three short names;
\* trips t1, t2, ... each of route r1 or r2 and service s1 or s2; stop-time
\* rows of trip t1 or t2 at stop p or q; service s1 runs today, service s2
\* does not (not on this day, or its period has ended).
ShortNames == {<<"1">>, <<"a">>, <<"B">>}

RouteTables ==
  UNION {{[i \in 1 .. n |-> [route_id |-> <<"r", ToString(i)>>, route_short_name |-> name[i]]] :
            name \in [1 .. n -> ShortNames]} : n \in 0 .. MaxRoutes}

TripTables ==
  UNION {{[i \in 1 .. n |-> [trip_id |-> <<"t", ToString(i)>>, route_id |-> r[i][1],
                            service_id |-> r[i][2]]] :
            r \in [1 .. n -> {<<"r", "1">>, <<"r", "2">>} \X {"s1", "s2"}]} :
         n \in 0 .. MaxTrips}

StopTimeTables ==
  UNION {[1 .. n -> [trip_id : {<<"t", "1">>, <<"t", "2">>}, stop_id : {"p", "q"}]] :
         n \in 0 .. MaxStopTimeRows}

CalendarTables ==
  {<<[service_id |-> "s1", start_date |-> 1, end_date |-> 3, wednesday |-> "1"], row>> :
     row \in {[service_id |-> "s2", start_date |-> 1, end_date |-> 3, wednesday |-> "0"],
              [service_id |-> "s2", start_date |-> 1, end_date |-> 1, wednesday |-> "1"]}}

GetActiveRoutesTodayCall ==
  /\ derive.op = "getActiveRoutesToday" /\ derive.pc = "call"
  /\ derive' = [derive EXCEPT !.pc = "done", !.out = GetActiveRoutesToday(derive.in)]
  /\ UNCHANGED <<cacheVars, match>>

RoutesInit ==
  /\ AtRest
  /\ \E routes \in RouteTables, trips \in TripTables, stopTimes \in StopTimeTables,
        calendar \in CalendarTables :
       derive = Call("getActiveRoutesToday",
                     [routes |-> routes, trips |-> trips, stopTimes |-> stopTimes,
                      calendar |-> calendar])

RoutesNext == GetActiveRoutesTodayCall

RoutesSpec == RoutesInit /\ [][RoutesNext]_vars

\* ------------------------------------------------------ upcoming departures
\* The order of the relational operators on strings: by UTF-16 code unit.
CodeUnit(c) ==
  IF c \in Digits THEN 48 + DigitValue(c)
  ELSE IF c = ":" THEN 58
  ELSE IF c = "B" THEN 66
  ELSE 97

RECURSIVE StringBeforeFrom(_, _, _)
StringBeforeFrom(a, b, i) ==
  IF i > Len(b) THEN FALSE
  ELSE IF i > Len(a) THEN TRUE
  ELSE IF CodeUnit(a[i]) # CodeUnit(b[i]) THEN CodeUnit(a[i]) < CodeUnit(b[i])
  ELSE StringBeforeFrom(a, b, i + 1)

\* a < b on strings; a >= b is its negation.
StringBefore(a, b) == StringBeforeFrom(a, b, 1)

\* array.slice(0, limit) for a limit that is a count.
Slice(seq, limit) == SubSeq(seq, 1, Min(limit, Len(seq)))

\* The selection cut to the limit before it is sorted.
UpcomingStopTimesSliceFirst(stopTimes, stopId, currentTimeStr, limit) ==
  LET atStop == FilterFrom(stopTimes,
                           [i \in DOMAIN stopTimes |-> stopTimes[i].stop_id = stopId], 1)
      future == FilterFrom(atStop,
                           [i \in DOMAIN atStop |->
                              ~StringBefore(atStop[i].departure_time, currentTimeStr)], 1)
      cut    == Slice(future, limit)
  IN SortBy(cut, [i \in DOMAIN cut |->
                    [j \in DOMAIN cut |->
                       LocaleBefore(cut[i].departure_time, cut[j].departure_time)]])

\* stopStopTimes of getUpcomingDepartures: filter, filter, sort, slice.
UpcomingStopTimes(stopTimes, stopId, currentTimeStr, limit) ==
  LET atStop == FilterFrom(stopTimes,
                           [i \in DOMAIN stopTimes |-> stopTimes[i].stop_id = stopId], 1)
      future == FilterFrom(atStop,
                           [i \in DOMAIN atStop |->
                              ~StringBefore(atStop[i].departure_time, currentTimeStr)], 1)
  IN Slice(SortBy(future, [i \in DOMAIN future |->
                             [j \in DOMAIN future |->
                                LocaleBefore(future[i].departure_time,
                                             future[j].departure_time)]]),
           limit)

\* getUpcomingDepartures: one departure per selected stop-time, here with
\* the fields taken from the stop-time.
GetUpcomingDepartures(stopTimes, stopId, currentTimeStr, limit) ==
  LET stopStopTimes == UpcomingStopTimes(stopTimes, stopId, currentTimeStr, limit)
  IN [k \in DOMAIN stopStopTimes |->
        [trip_id |-> stopStopTimes[k].trip_id,
         scheduled_departure |-> stopStopTimes[k].departure_time]]

\* The inputs drawn: times of day as GTFS writes them (HH:MM:SS, hours past
\* 24 for trips after midnight), the Eastern wall-clock string, stop-time
\* rows of trips t1, t2, ... at stop p or q, and a limit that is a count.
Hms(h1, h2, m1) == <<h1, h2, ":", m1, "0", ":", "0", "0">>

DepartureTimes == {Hms("0", "7", "5"), Hms("0", "8", "0"), Hms("0", "8", "3"), Hms("2", "4", "1")}

CurrentTimeStrs == {Hms("0", "8", "0"), Hms("2", "3", "5")}

DepartureTables ==
  UNION {{[i \in 1 .. n |-> [trip_id |-> <<"t", ToString(i)>>, stop_id |-> r[i][1],
                            departure_time |-> r[i][2]]] :
            r \in [1 .. n -> {"p", "q"} \X DepartureTimes]} : n \in 0 .. MaxDepartureRows}

GetUpcomingDeparturesCall ==
  /\ derive.op = "getUpcomingDepartures" /\ derive.pc = "call"
  /\ derive' = [derive EXCEPT
                  !.pc = "done",
                  !.out = GetUpcomingDepartures(derive.in.stopTimes, derive.in.stopId,
                                                derive.in.currentTimeStr, derive.in.limit)]
  /\ UNCHANGED <<cacheVars, match>>

DeparturesInit ==
  /\ AtRest
  /\ \E stopTimes \in DepartureTables, currentTimeStr \in CurrentTimeStrs,
        limit \in 0 .. MaxLimit :
       derive = Call("getUpcomingDepartures",
                     [stopTimes |-> stopTimes, stopId |-> "p",
                      currentTimeStr |-> currentTimeStr, limit |-> limit])

DeparturesNext == GetUpcomingDeparturesCall

DeparturesSpec == DeparturesInit /\ [][DeparturesNext]_vars

\* ---------------------------------------------------------------- live trips
\* String.prototype.toLowerCase on the characters drawn.
LowerChar(c) == IF c = "A" THEN "a" ELSE IF c = "B" THEN "b" ELSE c

ToLowerCase(str) == [i \in DOMAIN str |-> LowerChar(str[i])]

\* The route predicate of getLiveTrips for a filter that is given.
RouteMatches(route, routeFilter) ==
  \/ Includes(ToLowerCase(route.route_short_name), ToLowerCase(routeFilter))
  \/ route.route_id = routeFilter

\* tripsWithRealtimeData of getLiveTrips: the trips of a service active
\* today, of a matching route when a filter is given (an empty filter counts
\* as none), that have a trip update in the live snapshot.
TripsWithRealtimeData(gtfs, realtime, routeFilter) ==
  LET activeServices == ActiveServices(gtfs.calendar)
      activeTrips    ==
        FilterFrom(gtfs.trips,
                   [i \in DOMAIN gtfs.trips |-> gtfs.trips[i].service_id \in activeServices], 1)
      matchingRouteIds(f) ==
        {gtfs.routes[i].route_id :
           i \in {j \in DOMAIN gtfs.routes : RouteMatches(gtfs.routes[j], f)}}
      filteredTrips ==
        IF \E f \in routeFilter : f # <<>>
        THEN FilterFrom(activeTrips,
                        [i \in DOMAIN activeTrips |->
                           \E f \in routeFilter :
                             activeTrips[i].route_id \in matchingRouteIds(f)], 1)
        ELSE activeTrips
  IN FilterFrom(filteredTrips,
                [i \in DOMAIN filteredTrips |->
                   \E u \in DOMAIN realtime :
                     TripIdMatches(realtime[u], filteredTrips[i].trip_id)], 1)

\* getTripInfo on a snapshot pair: undefined for an unknown trip, else the
\* TripInfo (its fields that the live trip listing is about).
GetTripInfo(tripId, gtfs, realtime) ==
  {[trip_id |-> gtfs.trips[i].trip_id,
    route_id |-> gtfs.trips[i].route_id,
    service_id |-> gtfs.trips[i].service_id,
    is_active |-> gtfs.trips[i].service_id \in ActiveServices(gtfs.calendar),
    has_realtime_data |-> FindTripUpdateFrom(realtime, tripId, 1) # {}] :
     i \in {j \in DOMAIN gtfs.trips :
              /\ gtfs.trips[j].trip_id = tripId
              /\ \A k \in 1 .. j - 1 : gtfs.trips[k].trip_id # tripId}}

\* A loop body that pushes every TripInfo it gets.
PushLiveTripUnchecked(liveTrips, tripInfo) ==
  IF tripInfo # {} THEN Append(liveTrips, CHOOSE t \in tripInfo : TRUE) ELSE liveTrips

\* if (tripInfo && tripInfo.has_realtime_data) liveTrips.push(tripInfo).
PushLiveTrip(liveTrips, tripInfo) ==
  IF \E t \in tripInfo : t.has_realtime_data
  THEN Append(liveTrips, CHOOSE t \in tripInfo : TRUE)
  ELSE liveTrips

\* The inputs drawn: two routes, trips and calendars as for the route
\* listing, an optional filter, a limit that is a count, and live snapshots
\* with updates for the trips ending in 1 and 2 or without a trip id.
LiveRoutes ==
  <<[route_id |-> <<"r", "1">>, route_short_name |-> <<"a", "B">>],
    [route_id |-> <<"r", "2">>, route_short_name |-> <<"a">>]>>

RouteFilters == Optional({<<>>, <<"b">>, <<"A">>, <<"r", "2">>, <<"x">>})

LiveUpdate(id) == [tripId |-> id, stopTimeUpdate |-> {}]

LiveSnapshots ==
  {<<>>, <<LiveUpdate({<<"1">>})>>, <<LiveUpdate({<<"2">>})>>,
   <<LiveUpdate({}), LiveUpdate({<<"1">>})>>,
   <<LiveUpdate({<<"2">>}), LiveUpdate({<<"1">>})>>}

\* getLiveTrips up to its loop: the trips to materialize, cut to the limit.
GetLiveTripsStart ==
  /\ derive.op = "getLiveTrips" /\ derive.pc = "call"
  /\ derive' = [derive EXCEPT
                  !.pc = "loop",
                  !.out = [todo |-> Slice(TripsWithRealtimeData(derive.in.gtfs,
                                                                derive.in.realtime,
                                                                derive.in.routeFilter),
                                          derive.in.limit),
                           liveTrips |-> <<>>]]
  /\ UNCHANGED <<cacheVars, match>>

\* One round of the loop: await getTripInfo, which reads the live snapshot
\* cached by then (the cache may have been refreshed since the call began;
\* the static tables are the same at every load), and push the result.
GetLiveTripsMaterialize ==
  /\ derive.op = "getLiveTrips" /\ derive.pc = "loop"
  /\ derive.out.todo # <<>>
  /\ \E realtime \in LiveSnapshots :
       derive' = [derive EXCEPT
                    !.out = [todo |-> Tail(derive.out.todo),
                             liveTrips |->
                               PushLiveTrip(derive.out.liveTrips,
                                            GetTripInfo(Head(derive.out.todo).trip_id,
                                                        derive.in.gtfs, realtime))]]
  /\ UNCHANGED <<cacheVars, match>>

GetLiveTripsReturn ==
  /\ derive.op = "getLiveTrips" /\ derive.pc = "loop"
  /\ derive.out.todo = <<>>
  /\ derive' = [derive EXCEPT !.pc = "done"]
  /\ UNCHANGED <<cacheVars, match>>

LiveTripsInit ==
  /\ AtRest
  /\ \E trips \in TripTables, calendar \in CalendarTables, realtime \in LiveSnapshots,
        routeFilter \in RouteFilters, limit \in 0 .. MaxLimit :
       derive = Call("getLiveTrips",
                     [gtfs |-> [routes |-> LiveRoutes, trips |-> trips, calendar |-> calendar],
                      realtime |-> realtime, routeFilter |-> routeFilter, limit |-> limit])

LiveTripsNext == GetLiveTripsStart \/ GetLiveTripsMaterialize \/ GetLiveTripsReturn

LiveTripsSpec == LiveTripsInit /\ [][LiveTripsNext]_vars

\* ---------------------------------------------------------------- route shape
\* The route that getRouteShape finds: the first whose id equals the argument
\* or whose short name equals it with case ignored; undefined when none does.
RECURSIVE FindRouteFrom(_, _, _)
FindRouteFrom(routes, routeId, i) ==
  IF i > Len(routes) THEN {}
  ELSE IF \/ routes[i].route_id = routeId
          \/ ToLowerCase(routes[i].route_short_name) = ToLowerCase(routeId)
  THEN {i}
  ELSE FindRouteFrom(routes, routeId, i + 1)

\* Array.from(new Set(routeTrips.map(shape_id).filter(Boolean))): the shape
\* ids of the trips that are neither undefined nor empty, each once, in the
\* order of their first occurrence.
RECURSIVE ShapeIdsFrom(_, _, _)
ShapeIdsFrom(routeTrips, i, seen) ==
  IF i > Len(routeTrips) THEN seen
  ELSE LET new == {id \in routeTrips[i].shape_id :
                     id # "" /\ \A k \in DOMAIN seen : seen[k] # id}
       IN ShapeIdsFrom(routeTrips, i + 1,
                       IF new = {} THEN seen ELSE Append(seen, CHOOSE id \in new : TRUE))

\* A result built from whatever points there are, even none.
ShapeResultUnchecked(route, shapePoints) ==
  {[coordinates |-> [k \in DOMAIN shapePoints |->
                       <<ParseFloat(shapePoints[k].shape_pt_lat),
                         ParseFloat(shapePoints[k].shape_pt_lon)>>],
    route_id |-> route.route_id,
    filteredSegment |-> FALSE]}

\* The end of getRouteShape: null without shape points, else the result with
\* one coordinate pair per point.
ShapeResult(route, shapePoints) ==
  IF Len(shapePoints) = 0 THEN {}
  ELSE {[coordinates |-> [k \in DOMAIN shapePoints |->
                            <<ParseFloat(shapePoints[k].shape_pt_lat),
                              ParseFloat(shapePoints[k].shape_pt_lon)>>],
         route_id |-> route.route_id,
         filteredSegment |-> FALSE]}

\* getRouteShape(routeId) without start and end stops: null (no value) or
\* the shape.
GetRouteShape(gtfs, routeId) ==
  LET found == FindRouteFrom(gtfs.routes, routeId, 1)
  IN IF found = {} THEN {}
     ELSE LET route      == gtfs.routes[CHOOSE i \in found : TRUE]
              routeTrips == FilterFrom(gtfs.trips,
                                       [i \in DOMAIN gtfs.trips |->
                                          gtfs.trips[i].route_id = route.route_id], 1)
              shapeIds   == ShapeIdsFrom(routeTrips, 1, <<>>)
          IN IF Len(routeTrips) = 0 THEN {}
             ELSE IF Len(shapeIds) = 0 THEN {}
             ELSE LET ofShape == FilterFrom(gtfs.shapes,
                                            [i \in DOMAIN gtfs.shapes |->
                                               gtfs.shapes[i].shape_id = shapeIds[1]], 1)
                      Before(a, b) == \E x \in ParseInt(a.shape_pt_sequence),
                                         y \in ParseInt(b.shape_pt_sequence) : x < y
                      shapePoints == SortBy(ofShape,
                                            [i \in DOMAIN ofShape |->
                                               [j \in DOMAIN ofShape |->
                                                  Before(ofShape[i], ofShape[j])]])
                  IN ShapeResult(route, shapePoints)

\* The inputs drawn: the two routes of the live trip listing; trips t1, t2,
\* ... of either route with a shape id that is undefined, empty, h1 or h2;
\* shape points of h1 or h2 with sequence 1 or 2, each with its row number as
\* latitude; a route id that is an id, a short name in another case, or
\* unknown.
ShapeTripTables ==
  UNION {{[i \in 1 .. n |-> [trip_id |-> <<"t", ToString(i)>>, route_id |-> r[i][1],
                            shape_id |-> r[i][2]]] :
            r \in [1 .. n -> {<<"r", "1">>, <<"r", "2">>} \X Optional({"", "h1", "h2"})]} :
         n \in 0 .. MaxTrips}

ShapeTables ==
  UNION {{[i \in 1 .. n |-> [shape_id |-> r[i][1], shape_pt_sequence |-> r[i][2],
                            shape_pt_lat |-> <<ToString(i)>>, shape_pt_lon |-> <<"7">>]] :
            r \in [1 .. n -> {"h1", "h2"} \X {<<"1">>, <<"2">>}]} :
         n \in 0 .. MaxShapePoints}

RouteIdArguments == {<<"r", "1">>, <<"r", "2">>, <<"A", "b">>, <<"a">>, <<"x">>}

GetRouteShapeCall ==
  /\ derive.op = "getRouteShape" /\ derive.pc = "call"
  /\ derive' = [derive EXCEPT !.pc = "done",
                              !.out = GetRouteShape(derive.in.gtfs, derive.in.routeId)]
  /\ UNCHANGED <<cacheVars, match>>

ShapeInit ==
  /\ AtRest
  /\ \E trips \in ShapeTripTables, shapes \in ShapeTables, routeId \in RouteIdArguments :
       derive = Call("getRouteShape",
                     [gtfs |-> [routes |-> LiveRoutes, trips |-> trips, shapes |-> shapes],
                      routeId |-> routeId])

ShapeNext == GetRouteShapeCall

ShapeSpec == ShapeInit /\ [][ShapeNext]_vars

\* ------------------------------------------------------------ lookup by id
\* array.find(predicate), where hit[i] is the predicate's value on seq[i]:
\* the first position accepted, undefined when there is none.
RECURSIVE FindFrom(_, _)
FindFrom(hit, i) ==
  IF i > Len(hit) THEN {}
  ELSE IF hit[i] THEN {i}
  ELSE FindFrom(hit, i + 1)

\* getRouteInfo: the entry of getActiveRoutesToday with that route id, or null.
GetRouteInfo(gtfs, routeId) ==
  LET routes == GetActiveRoutesToday(gtfs)
  IN {routes[i] : i \in FindFrom([k \in DOMAIN routes |-> routes[k].route_id = routeId], 1)}

\* getStopInfo: the stop with that stop id, or null.
GetStopInfo(gtfs, stopId) ==
  {[stop_id |-> gtfs.stops[i].stop_id, stop_name |-> gtfs.stops[i].stop_name] :
     i \in FindFrom([k \in DOMAIN gtfs.stops |-> gtfs.stops[k].stop_id = stopId], 1)}

\* searchStops(query, limit): the first limit stops whose name, id or code
\* contains the query, case ignored, each through getStopInfo.
SearchStops(gtfs, query, limit) ==
  LET lowerQuery == ToLowerCase(query)
      matchingStops ==
        Slice(FilterFrom(gtfs.stops,
                         [i \in DOMAIN gtfs.stops |->
                            \/ Includes(ToLowerCase(gtfs.stops[i].stop_name), lowerQuery)
                            \/ Includes(ToLowerCase(gtfs.stops[i].stop_id), lowerQuery)
                            \/ \E code \in gtfs.stops[i].stop_code :
                                 Includes(ToLowerCase(code), lowerQuery)], 1),
              limit)
      stopInfos == [k \in DOMAIN matchingStops |->
                      GetStopInfo(gtfs, matchingStops[k].stop_id)]
      results   == FilterFrom(stopInfos, [k \in DOMAIN stopInfos |-> stopInfos[k] # {}], 1)
  IN [k \in DOMAIN results |-> CHOOSE info \in results[k] : TRUE]

\* The get_route_info handler: by route id, then by short name with case
\* ignored, in the list of getActiveRoutesToday.
HandleGetRouteInfo(gtfs, route_id) ==
  LET allRoutes == GetActiveRoutesToday(gtfs)
      byId      == FindFrom([k \in DOMAIN allRoutes |-> allRoutes[k].route_id = route_id], 1)
      byName    == FindFrom([k \in DOMAIN allRoutes |->
                               ToLowerCase(allRoutes[k].route_short_name)
                                 = ToLowerCase(route_id)], 1)
  IN IF byId = {} /\ byName = {} THEN NotFoundResponse ELSE JsonResponse

\* The get_stop_info handler: getStopInfo, then the first result of
\* searchStops(stop_id, 1).
HandleGetStopInfo(gtfs, stop_id) ==
  LET stop == GetStopInfo(gtfs, stop_id)
  IN IF stop = {} /\ Len(SearchStops(gtfs, stop_id, 1)) = 0
     THEN NotFoundResponse
     ELSE JsonResponse

\* A get_trip_info handler that throws for an unknown trip.
HandleGetTripInfoThrows(gtfs, realtime, trip_id) ==
  IF GetTripInfo(trip_id, gtfs, realtime) = {}
  THEN ErrorResponse(OperationOf("get_trip_info"), [isError |-> TRUE, message |-> "Trip not found"])
  ELSE JsonResponse

\* The get_trip_info handler.
HandleGetTripInfo(gtfs, realtime, trip_id) ==
  IF GetTripInfo(trip_id, gtfs, realtime) = {} THEN NotFoundResponse ELSE JsonResponse

\* withErrorHandling around a handler whose facade call loads the static
\* snapshot: the catch answers with the error response.
WithErrorHandling(tool, load, response) ==
  IF load.threw THEN ErrorResponse(OperationOf(tool), load.error) ELSE response

\* What a lookup tool called with an id answers, and what the facade
\* operation of the same name returns for that id (null when the load
\* failed: it threw).
LookupTool(tool, gtfs, id, load) ==
  [facade |-> IF load.threw THEN {}
              ELSE CASE tool = "get_route_info" -> GetRouteInfo(gtfs, id)
                     [] tool = "get_stop_info"  -> GetStopInfo(gtfs, id)
                     [] tool = "get_trip_info"  -> GetTripInfo(id, gtfs, <<>>),
   response |-> WithErrorHandling(tool, load,
                  CASE tool = "get_route_info" -> HandleGetRouteInfo(gtfs, id)
                    [] tool = "get_stop_info"  -> HandleGetStopInfo(gtfs, id)
                    [] tool = "get_trip_info"  -> HandleGetTripInfo(gtfs, <<>>, id))]

\* The inputs drawn: stops s1, s2, ... with a name and perhaps a code; the
\* tables of the route listing; an id that is a row's id, a short name or a
\* part of a name or id in another case, or matches nothing.
StopTables ==
  UNION {{[i \in 1 .. n |-> [stop_id |-> <<"s", ToString(i)>>, stop_name |-> r[i][1],
                            stop_code |-> r[i][2]]] :
            r \in [1 .. n -> {<<"a">>, <<"a", "B">>} \X Optional({<<"7">>})]} :
         n \in 0 .. MaxStopRows}

LookupTools == {"get_route_info", "get_stop_info", "get_trip_info"}

LookupIds(tool) ==
  CASE tool = "get_route_info" -> {<<"r", "1">>, <<"r", "3">>, <<"A">>, <<"x">>}
    [] tool = "get_stop_info"  -> {<<"s", "1">>, <<"S", "2">>, <<"b">>, <<"7">>, <<"x">>}
    [] tool = "get_trip_info"  -> {<<"t", "1">>, <<"t", "3">>, <<"1">>, <<"x">>}

LookupToolCall ==
  /\ derive.op = "lookup" /\ derive.pc = "call"
  /\ derive' = [derive EXCEPT
                  !.pc = "done",
                  !.out = LookupTool(derive.in.tool, derive.in.gtfs, derive.in.id,
                                     LoadGTFSData(derive.in.outcome, 1))]
  /\ UNCHANGED <<cacheVars, match>>

LookupInit ==
  /\ AtRest
  /\ \E tool \in LookupTools, routes \in RouteTables, trips \in TripTables,
        stops \in StopTables, calendar \in CalendarTables, outcome \in LoadOutcomes :
       \E id \in LookupIds(tool) :
         /\ tool # "get_stop_info" => stops = <<>>
         /\ tool = "get_stop_info" => routes = <<>> /\ trips = <<>>
         /\ derive = Call("lookup",
                          [tool |-> tool, id |-> id, outcome |-> outcome,
                           gtfs |-> [routes |-> routes, trips |-> trips, stops |-> stops,
                                     stopTimes |-> <<>>, calendar |-> calendar]])

LookupNext == LookupToolCall

LookupSpec == LookupInit /\ [][LookupNext]_vars

\* ------------------------------------------------------------ progress scan
\* The scan loop of calculateTripProgress on the ordered stop-times of a trip
\* and a list of per-stop updates.
ScanStopTimes ==
  {[i \in 1 .. n |-> [trip_id |-> ProgressTripId, stop_id |-> StopIdAt(i),
                      stop_sequence |-> <<ToString(i)>>, shape_distance_traveled |-> {}]] :
     n \in 1 .. MaxStops}

ScanLists == UNION {[1 .. k -> ProgressStopUpdates] : k \in 0 .. MaxProgressUpdates}

ScanCurrentStopCall ==
  /\ derive.op = "scanCurrentStop" /\ derive.pc = "call"
  /\ derive' = [derive EXCEPT
                  !.pc = "done",
                  !.out = ScanCurrentStop(derive.in.tripStopTimes, derive.in.list, 1, 0)]
  /\ UNCHANGED <<cacheVars, match>>

ScanInit ==
  /\ AtRest
  /\ \E tripStopTimes \in ScanStopTimes, list \in ScanLists :
       derive = Call("scanCurrentStop", [tripStopTimes |-> tripStopTimes, list |-> list])

ScanNext == ScanCurrentStopCall

ScanSpec == ScanInit /\ [][ScanNext]_vars

\* ------------------------------------------------ upcoming departures tool
\* route?.route_short_name || "Unknown" for the route of a stop-time's trip.
RouteShortNameOf(gtfs, trip_id) ==
  LET trip  == FindFrom([k \in DOMAIN gtfs.trips |-> gtfs.trips[k].trip_id = trip_id], 1)
      route == UNION {FindFrom([k \in DOMAIN gtfs.routes |->
                                  gtfs.routes[k].route_id = gtfs.trips[t].route_id], 1) :
                        t \in trip}
  IN IF route = {} \/ gtfs.routes[CHOOSE r \in route : TRUE].route_short_name = <<>>
     THEN <<"U", "n", "k", "n", "o", "w", "n">>
     ELSE gtfs.routes[CHOOSE r \in route : TRUE].route_short_name

\* The get_upcoming_departures handler for a stop that exists: the
\* departures of getStopInfo(stop_id, limit * 2), the route filter when one
\* is given, then slice(0, limit).
UpcomingDeparturesTool(gtfs, stop_id, currentTimeStr, limit, route_filter) ==
  LET stopStopTimes == UpcomingStopTimes(gtfs.stopTimes, stop_id, currentTimeStr, limit * 2)
      upcoming_departures ==
        [k \in DOMAIN stopStopTimes |->
           [trip_id |-> stopStopTimes[k].trip_id,
            route_short_name |-> RouteShortNameOf(gtfs, stopStopTimes[k].trip_id),
            scheduled_departure |-> stopStopTimes[k].departure_time]]
      departures ==
        IF \E f \in route_filter : f # <<>>
        THEN FilterFrom(upcoming_departures,
                        [k \in DOMAIN upcoming_departures |->
                           \E f \in route_filter :
                             Includes(ToLowerCase(upcoming_departures[k].route_short_name),
                                      ToLowerCase(f))], 1)
        ELSE upcoming_departures
  IN Slice(departures, limit)

\* The inputs drawn: trips t1, t2, ... of route r1 ("aB") or r2 ("a"), each
\* with one stop-time at stop p at any of the departure times.
DepartureToolTables ==
  UNION {{[routes |-> LiveRoutes,
           trips |-> [i \in 1 .. n |-> [trip_id |-> <<"t", ToString(i)>>,
                                        route_id |-> r[i][1]]],
           stopTimes |-> [i \in 1 .. n |-> [trip_id |-> <<"t", ToString(i)>>,
                                            stop_id |-> "p",
                                            departure_time |-> r[i][2]]]] :
            r \in [1 .. n -> {<<"r", "1">>, <<"r", "2">>} \X DepartureTimes]} :
         n \in 0 .. MaxDepartureRows}

DepartureFilters == Optional({<<"b">>, <<"A">>})

UpcomingDeparturesToolCall ==
  /\ derive.op = "get_upcoming_departures" /\ derive.pc = "call"
  /\ derive' = [derive EXCEPT
                  !.pc = "done",
                  !.out = UpcomingDeparturesTool(derive.in.gtfs, derive.in.stop_id,
                                                 derive.in.currentTimeStr, derive.in.limit,
                                                 derive.in.route_filter)]
  /\ UNCHANGED <<cacheVars, match>>

DepartureToolInit ==
  /\ AtRest
  /\ \E gtfs \in DepartureToolTables, currentTimeStr \in CurrentTimeStrs,
        limit \in 0 .. MaxLimit, route_filter \in DepartureFilters :
       derive = Call("get_upcoming_departures",
                     [gtfs |-> gtfs, stop_id |-> "p", currentTimeStr |-> currentTimeStr,
                      limit |-> limit, route_filter |-> route_filter])

DepartureToolNext == UpcomingDeparturesToolCall

DepartureToolSpec == DepartureToolInit /\ [][DepartureToolNext]_vars

\* ------------------------------------------------------------ trip schedule
\* A has_passed that counts a departure at the very clock reading as passed.
HasPassedOrNow(st, currentTimeStr) == ~StringBefore(currentTimeStr, st.departure_time)

\* has_passed of getTripSchedule: st.departure_time < currentTimeStr.
HasPassed(st, currentTimeStr) == StringBefore(st.departure_time, currentTimeStr)

\* getTripSchedule for a trip without a live update: one entry per stop-time
\* of the trip, in the order of tripStopTimes.
GetTripSchedule(stopTimes, tripId, currentTimeStr) ==
  LET tripStopTimes == TripStopTimes(stopTimes, tripId)
  IN [k \in DOMAIN tripStopTimes |->
        [stop_id |-> tripStopTimes[k].stop_id,
         stop_sequence |-> ParseInt(tripStopTimes[k].stop_sequence),
         scheduled_arrival |-> tripStopTimes[k].arrival_time,
         scheduled_departure |-> tripStopTimes[k].departure_time,
         has_passed |-> HasPassed(tripStopTimes[k], currentTimeStr)]]

\* The inputs drawn: rows of the trip asked for or of another trip, all at
\* stop p, with stop_sequence 2, 9 or 10 in any row order, a departure
\* before, at or after the first clock reading or past 24:00:00, and the row
\* number as arrival time.
ScheduleTripId == <<"t", "1">>

ScheduleTables ==
  UNION {{[i \in 1 .. n |-> [trip_id |-> r[i][1], stop_id |-> "p",
                            stop_sequence |-> r[i][2], arrival_time |-> <<ToString(i)>>,
                            departure_time |-> r[i][3]]] :
            r \in [1 .. n -> {ScheduleTripId, <<"t", "2">>}
                               \X {<<"2">>, <<"9">>, <<"1", "0">>}
                               \X {Hms("0", "7", "5"), Hms("0", "8", "0"), Hms("2", "4", "1")}]} :
         n \in 0 .. MaxScheduleRows}

\* getTripSchedule(tripId) at one clock reading.
GetTripScheduleCall ==
  /\ derive.op = "getTripSchedule" /\ derive.pc = "call"
  /\ derive' = [derive EXCEPT
                  !.pc = "schedule",
                  !.out = [stop_schedule |-> GetTripSchedule(derive.in.stopTimes,
                                                             derive.in.tripId,
                                                             derive.in.currentTimeStr),
                           departures |-> <<>>]]
  /\ UNCHANGED <<cacheVars, match>>

\* getUpcomingDepartures for the stop at the same clock reading, with a
\* limit that cuts nothing.
ScheduleDeparturesCall ==
  /\ derive.op = "getTripSchedule" /\ derive.pc = "schedule"
  /\ derive' = [derive EXCEPT
                  !.pc = "done",
                  !.out.departures = GetUpcomingDepartures(derive.in.stopTimes, "p",
                                                           derive.in.currentTimeStr,
                                                           Len(derive.in.stopTimes))]
  /\ UNCHANGED <<cacheVars, match>>

ScheduleInit ==
  /\ AtRest
  /\ \E stopTimes \in ScheduleTables, currentTimeStr \in CurrentTimeStrs :
       derive = Call("getTripSchedule",
                     [stopTimes |-> stopTimes, tripId |-> ScheduleTripId,
                      currentTimeStr |-> currentTimeStr])

ScheduleNext == GetTripScheduleCall \/ ScheduleDeparturesCall

ScheduleSpec == ScheduleInit /\ [][ScheduleNext]_vars

\* ------------------------------------------------ arrays of the snapshots
\* Arrays are held by reference: the heap is the sequence of the arrays that
\* exist, a reference is a position in it, and the tables of the cached
\* static and live snapshots are the references below.
Tables == [routes |-> 1, trips |-> 2, stopTimes |-> 3, stops |-> 4, calendar |-> 5,
           shapes |-> 6, trip_updates |-> 7]

TableRefs == 1 .. 7

\* The rows of an array.
Rows(seq) == {seq[i] : i \in DOMAIN seq}

\* An array is written h = [heap, ref]: the heap and the reference into it.
\* A new array on the heap of h.
Alloc(h, seq) == [heap |-> Append(h.heap, seq), ref |-> Len(h.heap) + 1]

\* A filter that removes the rejected rows from its receiver.
ArrayFilterInPlace(h, kept) ==
  [heap |-> [h.heap EXCEPT ![h.ref] =
               FilterFrom(h.heap[h.ref],
                          [i \in DOMAIN h.heap[h.ref] |-> h.heap[h.ref][i] \in kept], 1)],
   ref |-> h.ref]

\* Array.prototype.filter: a new array of the rows the predicate accepts
\* (the rows in kept), in order.
ArrayFilter(h, kept) ==
  Alloc(h, FilterFrom(h.heap[h.ref],
                      [i \in DOMAIN h.heap[h.ref] |-> h.heap[h.ref][i] \in kept], 1))

\* Array.prototype.sort: sorts its receiver in place and returns it; before
\* holds the pairs of rows for which the comparator is negative.
ArraySort(h, before) ==
  [heap |-> [h.heap EXCEPT ![h.ref] =
               SortBy(h.heap[h.ref],
                      [i \in DOMAIN h.heap[h.ref] |->
                         [j \in DOMAIN h.heap[h.ref] |->
                            <<h.heap[h.ref][i], h.heap[h.ref][j]>> \in before]])],
   ref |-> h.ref]

\* Array.prototype.slice(0, limit): a new array.
ArraySlice(h, limit) == Alloc(h, Slice(h.heap[h.ref], limit))

\* Array.prototype.map: a new array of the images of the rows.
ArrayMap(h, image) == Alloc(h, [i \in DOMAIN h.heap[h.ref] |-> image[h.heap[h.ref][i]]])

\* activeTrips of getSystemInfo, getActiveRoutesToday and getLiveTrips: the
\* filter of the calendar, its service ids, and the filter of the trips.
ActiveTripsArray(heap) ==
  LET calendar == Rows(heap[Tables.calendar])
      trips    == Rows(heap[Tables.trips])
  IN ArrayFilter(
       [heap |-> ArrayMap(ArrayFilter([heap |-> heap, ref |-> Tables.calendar],
                                      {c \in calendar : IsServiceActiveTodayEastern(c)}),
                          [c \in calendar |-> c.service_id]).heap,
        ref |-> Tables.trips],
       {t \in trips : t.service_id \in ActiveServices(heap[Tables.calendar])})

\* getSystemInfo: the active trips, their route ids, and lengths of tables.
GetSystemInfoArrays(heap) ==
  ArrayMap(ActiveTripsArray(heap), [t \in Rows(heap[Tables.trips]) |-> t.route_id]).heap

\* The arrays of tripsByRoute: one new array per route id among the trips,
\* filled by push in the order of the trips.
RECURSIVE TripsByRouteArrays(_, _)
TripsByRouteArrays(heap, i) ==
  IF i > Len(heap[Tables.trips]) THEN heap
  ELSE TripsByRouteArrays(
         IF \E k \in 1 .. i - 1 :
              heap[Tables.trips][k].route_id = heap[Tables.trips][i].route_id
         THEN heap
         ELSE Append(heap,
                     FilterFrom(heap[Tables.trips],
                                [k \in DOMAIN heap[Tables.trips] |->
                                   heap[Tables.trips][k].route_id
                                     = heap[Tables.trips][i].route_id], 1)),
         i + 1)

\* getActiveRoutesToday: the active trips and their route ids, tripsByRoute,
\* and routeInfos, the map of the route table; it is routeInfos that is
\* sorted.
GetActiveRoutesTodayArrays(heap) ==
  LET routes == Rows(heap[Tables.routes])
      active == {t.route_id : t \in {t \in Rows(heap[Tables.trips]) :
                                       t.service_id \in ActiveServices(heap[Tables.calendar])}}
      info   == [route \in routes |->
                   [route_id |-> route.route_id,
                    route_short_name |-> route.route_short_name,
                    trip_count |-> Cardinality(TripsByRoute(route.route_id, heap[Tables.trips])),
                    is_active |-> route.route_id \in active]]
  IN ArraySort(ArrayMap([heap |-> TripsByRouteArrays(GetSystemInfoArrays(heap), 1),
                         ref |-> Tables.routes], info),
               {pair \in Rows(info) \X Rows(info) :
                  LocaleBefore(pair[1].route_short_name, pair[2].route_short_name)}).heap

\* getUpcomingDepartures: filter, filter, sort, slice and map of the
\* stop-time table.
GetUpcomingDeparturesArrays(heap, stopId, currentTimeStr, limit) ==
  LET rows == Rows(heap[Tables.stopTimes])
  IN ArrayMap(
       ArraySlice(
         ArraySort(
           ArrayFilter(
             ArrayFilter([heap |-> heap, ref |-> Tables.stopTimes],
                         {st \in rows : st.stop_id = stopId}),
             {st \in rows : ~StringBefore(st.departure_time, currentTimeStr)}),
           {pair \in rows \X rows :
              LocaleBefore(pair[1].departure_time, pair[2].departure_time)}),
         limit),
       [st \in rows |-> [trip_id |-> st.trip_id,
                         scheduled_departure |-> st.departure_time]]).heap

\* getStopInfo: a find in the stop table, then the upcoming departures.
GetStopInfoArrays(heap, stopId, currentTimeStr, limit) ==
  IF \A s \in Rows(heap[Tables.stops]) : s.stop_id # stopId THEN heap
  ELSE GetUpcomingDeparturesArrays(heap, stopId, currentTimeStr, limit)

\* tripStopTimes of getTripSchedule and of calculateTripProgress: the
\* filter of the stop-time table, sorted.
TripStopTimesArray(heap, tripId) ==
  LET rows == Rows(heap[Tables.stopTimes])
  IN ArraySort(ArrayFilter([heap |-> heap, ref |-> Tables.stopTimes],
                           {st \in rows : st.trip_id = tripId}),
               {pair \in rows \X rows :
                  \E x \in ParseInt(pair[1].stop_sequence),
                     y \in ParseInt(pair[2].stop_sequence) : x < y})

\* getTripInfo: finds in the tables, the calendar filter, the schedule of
\* getTripSchedule and the stop list of calculateTripProgress.
GetTripInfoArrays(heap, tripId, currentTimeStr) ==
  IF \A t \in Rows(heap[Tables.trips]) : t.trip_id # tripId THEN heap
  ELSE TripStopTimesArray(
         ArrayMap(
           TripStopTimesArray(
             ArrayFilter([heap |-> heap, ref |-> Tables.calendar],
                         {c \in Rows(heap[Tables.calendar]) :
                            IsServiceActiveTodayEastern(c)}).heap,
             tripId),
           [st \in Rows(heap[Tables.stopTimes]) |->
              [stop_id |-> st.stop_id,
               stop_sequence |-> ParseInt(st.stop_sequence),
               has_passed |-> HasPassed(st, currentTimeStr)]]).heap,
         tripId).heap

\* The loop of searchStops: getStopInfo(stop.stop_id, 5) for each matching stop.
RECURSIVE EachStopInfoArrays(_, _, _, _)
EachStopInfoArrays(heap, matchingStops, k, currentTimeStr) ==
  IF k > Len(matchingStops) THEN heap
  ELSE EachStopInfoArrays(GetStopInfoArrays(heap, matchingStops[k].stop_id, currentTimeStr, 5),
                          matchingStops, k + 1, currentTimeStr)

\* searchStops: filter and slice of the stop table, the results array, and
\* getStopInfo for each stop kept.
SearchStopsArrays(heap, query, currentTimeStr, limit) ==
  LET matching == {s \in Rows(heap[Tables.stops]) :
                     \/ Includes(ToLowerCase(s.stop_name), ToLowerCase(query))
                     \/ Includes(ToLowerCase(s.stop_id), ToLowerCase(query))
                     \/ \E code \in s.stop_code :
                          Includes(ToLowerCase(code), ToLowerCase(query))}
  IN EachStopInfoArrays(
       Alloc(ArraySlice(ArrayFilter([heap |-> heap, ref |-> Tables.stops], matching), limit),
             SearchStops([stops |-> heap[Tables.stops]], query, limit)).heap,
       Slice(FilterFrom(heap[Tables.stops],
                        [i \in DOMAIN heap[Tables.stops] |->
                           heap[Tables.stops][i] \in matching], 1), limit),
       1, currentTimeStr)

\* The loop of getLiveTrips: getTripInfo for each trip of the slice.
RECURSIVE EachTripInfoArrays(_, _, _, _)
EachTripInfoArrays(heap, trips, k, currentTimeStr) ==
  IF k > Len(trips) THEN heap
  ELSE EachTripInfoArrays(GetTripInfoArrays(heap, trips[k].trip_id, currentTimeStr),
                          trips, k + 1, currentTimeStr)

\* getLiveTrips: the active trips, the route filter when one is given, the
\* trips with a live update, their slice, the liveTrips array and getTripInfo
\* for each trip of the slice.
GetLiveTripsArrays(heap, routeFilter, currentTimeStr, limit) ==
  LET trips    == Rows(heap[Tables.trips])
      routes   == Rows(heap[Tables.routes])
      matching == {r \in routes : \E f \in routeFilter : RouteMatches(r, f)}
      filtered ==
        IF \E f \in routeFilter : f # <<>>
        THEN ArrayFilter(
               [heap |-> ArrayMap(ArrayFilter([heap |-> ActiveTripsArray(heap).heap,
                                               ref |-> Tables.routes], matching),
                                  [r \in routes |-> r.route_id]).heap,
                ref |-> ActiveTripsArray(heap).ref],
               {t \in trips : \E r \in matching : r.route_id = t.route_id})
        ELSE ActiveTripsArray(heap)
  IN EachTripInfoArrays(
       Alloc(ArraySlice(ArrayFilter(filtered,
                                    {t \in trips :
                                       \E u \in DOMAIN heap[Tables.trip_updates] :
                                         TripIdMatches(heap[Tables.trip_updates][u],
                                                       t.trip_id)}),
                        limit),
             <<>>).heap,
       Slice(TripsWithRealtimeData([routes |-> heap[Tables.routes],
                                    trips |-> heap[Tables.trips],
                                    calendar |-> heap[Tables.calendar]],
                                   heap[Tables.trip_updates], routeFilter), limit),
       1, currentTimeStr)

\* getRouteShape without start and end stops: the trips of the route, their
\* shape ids, and the filter of the shape table, sorted, and its coordinates.
GetRouteShapeArrays(heap, routeId) ==
  IF FindRouteFrom(heap[Tables.routes], routeId, 1) = {} THEN heap
  ELSE LET route      == heap[Tables.routes][CHOOSE i \in FindRouteFrom(heap[Tables.routes],
                                                                        routeId, 1) : TRUE]
           trips      == Rows(heap[Tables.trips])
           shapes     == Rows(heap[Tables.shapes])
           ofRoute    == ArrayFilter([heap |-> heap, ref |-> Tables.trips],
                                     {t \in trips : t.route_id = route.route_id})
           shapeIds   == ShapeIdsFrom(FilterFrom(heap[Tables.trips],
                                                 [i \in DOMAIN heap[Tables.trips] |->
                                                    heap[Tables.trips][i].route_id
                                                      = route.route_id], 1),
                                      1, <<>>)
           idsArray   == Alloc(ArrayFilter(ArrayMap(ofRoute, [t \in trips |-> t.shape_id]),
                                           {sid \in {t.shape_id : t \in trips} :
                                              \E id \in sid : id # ""}),
                               shapeIds)
           sorted     == ArraySort(ArrayFilter([heap |-> idsArray.heap, ref |-> Tables.shapes],
                                               {p \in shapes : p.shape_id = shapeIds[1]}),
                                   {pair \in shapes \X shapes :
                                      \E x \in ParseInt(pair[1].shape_pt_sequence),
                                         y \in ParseInt(pair[2].shape_pt_sequence) : x < y})
       IN IF \A t \in trips : t.route_id # route.route_id THEN ofRoute.heap
          ELSE IF Len(shapeIds) = 0 THEN idsArray.heap
          ELSE IF \A p \in shapes : p.shape_id # shapeIds[1] THEN sorted.heap
          ELSE ArrayMap(sorted, [p \in shapes |-> <<ParseFloat(p.shape_pt_lat),
                                                    ParseFloat(p.shape_pt_lon)>>]).heap

\* The snapshots drawn: the two routes of the live trip listing (their
\* short names are not in collation order); a trip of each route; three
\* stop-times in any row order whose departure times and stop sequences are
\* in no order; two stops; a calendar of the route listing; two points of
\* shape h1 in either order; a live snapshot with an update for each trip.
Orders(n) == {p \in [1 .. n -> 1 .. n] : \A i, j \in 1 .. n : p[i] = p[j] => i = j}

FrameTrips ==
  <<[trip_id |-> <<"t", "1">>, route_id |-> <<"r", "1">>, service_id |-> "s1",
     shape_id |-> {"h1"}],
    [trip_id |-> <<"t", "2">>, route_id |-> <<"r", "2">>, service_id |-> "s2",
     shape_id |-> {}]>>

FrameStopTimes ==
  <<[trip_id |-> <<"t", "1">>, stop_id |-> StopIdAt(1), stop_sequence |-> <<"1", "0">>,
     departure_time |-> Hms("2", "4", "1")],
    [trip_id |-> <<"t", "2">>, stop_id |-> StopIdAt(1), stop_sequence |-> <<"9">>,
     departure_time |-> Hms("0", "8", "3")],
    [trip_id |-> <<"t", "1">>, stop_id |-> StopIdAt(2), stop_sequence |-> <<"2">>,
     departure_time |-> Hms("0", "8", "0")]>>

FrameStops ==
  <<[stop_id |-> StopIdAt(1), stop_name |-> <<"a", "B">>, stop_code |-> {}],
    [stop_id |-> StopIdAt(2), stop_name |-> <<"a">>, stop_code |-> {<<"7">>}]>>

FrameShapes ==
  <<[shape_id |-> "h1", shape_pt_sequence |-> <<"2">>, shape_pt_lat |-> <<"1">>,
     shape_pt_lon |-> <<"7">>],
    [shape_id |-> "h1", shape_pt_sequence |-> <<"1">>, shape_pt_lat |-> <<"2">>,
     shape_pt_lon |-> <<"7">>]>>

FrameSnapshots ==
  {<<LiveRoutes, FrameTrips, [i \in 1 .. 3 |-> FrameStopTimes[p[i]]], FrameStops, calendar,
     [i \in 1 .. 2 |-> FrameShapes[q[i]]], <<LiveUpdate({<<"2">>}), LiveUpdate({<<"1">>})>>>> :
     p \in Orders(3), q \in Orders(2), calendar \in CalendarTables}

\* The tables of the cached snapshots, as they are now.
CachedTables == SubSeq(derive.out.heap, 1, Cardinality(TableRefs))

\* A facade operation has run on the cached snapshots.
FacadeDone(operation, heap) ==
  derive' = [derive EXCEPT !.pc = "done", !.out = [operation |-> operation, heap |-> heap]]

GetSystemInfoCall ==
  /\ derive.op = "facade" /\ derive.pc = "call"
  /\ FacadeDone("getSystemInfo", GetSystemInfoArrays(CachedTables))
  /\ UNCHANGED <<cacheVars, match>>

ActiveRoutesTodayCall ==
  /\ derive.op = "facade" /\ derive.pc = "call"
  /\ FacadeDone("getActiveRoutesToday", GetActiveRoutesTodayArrays(CachedTables))
  /\ UNCHANGED <<cacheVars, match>>

StopInfoCall ==
  /\ derive.op = "facade" /\ derive.pc = "call"
  /\ \E stopId \in {StopIdAt(1), StopIdAt(3)}, currentTimeStr \in CurrentTimeStrs :
       FacadeDone("getStopInfo",
                  GetStopInfoArrays(CachedTables, stopId, currentTimeStr, MaxLimit))
  /\ UNCHANGED <<cacheVars, match>>

UpcomingDeparturesCall ==
  /\ derive.op = "facade" /\ derive.pc = "call"
  /\ \E stopId \in {StopIdAt(1), StopIdAt(2)}, currentTimeStr \in CurrentTimeStrs,
        limit \in 0 .. MaxLimit :
       FacadeDone("getUpcomingDepartures",
                  GetUpcomingDeparturesArrays(CachedTables, stopId, currentTimeStr, limit))
  /\ UNCHANGED <<cacheVars, match>>

TripInfoCall ==
  /\ derive.op = "facade" /\ derive.pc = "call"
  /\ \E tripId \in {<<"t", "1">>, <<"t", "2">>, <<"t", "3">>},
        currentTimeStr \in CurrentTimeStrs :
       FacadeDone("getTripInfo", GetTripInfoArrays(CachedTables, tripId, currentTimeStr))
  /\ UNCHANGED <<cacheVars, match>>

SearchStopsCall ==
  /\ derive.op = "facade" /\ derive.pc = "call"
  /\ \E query \in {<<"A">>, <<"x">>}, limit \in 0 .. MaxLimit :
       FacadeDone("searchStops",
                  SearchStopsArrays(CachedTables, query, Hms("0", "8", "0"), limit))
  /\ UNCHANGED <<cacheVars, match>>

LiveTripsCall ==
  /\ derive.op = "facade" /\ derive.pc = "call"
  /\ \E routeFilter \in Optional({<<"b">>, <<"x">>}), limit \in 0 .. MaxLimit :
       FacadeDone("getLiveTrips",
                  GetLiveTripsArrays(CachedTables, routeFilter, Hms("0", "8", "0"), limit))
  /\ UNCHANGED <<cacheVars, match>>

RouteShapeCall ==
  /\ derive.op = "facade" /\ derive.pc = "call"
  /\ \E routeId \in RouteIdArguments :
       FacadeDone("getRouteShape", GetRouteShapeArrays(CachedTables, routeId))
  /\ UNCHANGED <<cacheVars, match>>

\* The operation has returned: its arrays are garbage, and the next
\* operation starts from the tables as it left them.
FacadeReturn ==
  /\ derive.op = "facade" /\ derive.pc = "done"
  /\ derive' = [derive EXCEPT !.pc = "call",
                              !.out = [operation |-> "returned", heap |-> CachedTables]]
  /\ UNCHANGED <<cacheVars, match>>

FrameInit ==
  /\ AtRest
  /\ \E snapshot \in FrameSnapshots :
       derive = [Call("facade", [loaded |-> snapshot]) EXCEPT
                   !.out = [operation |-> "none", heap |-> snapshot]]

FrameNext ==
  \/ GetSystemInfoCall
  \/ ActiveRoutesTodayCall
  \/ StopInfoCall
  \/ UpcomingDeparturesCall
  \/ TripInfoCall
  \/ SearchStopsCall
  \/ LiveTripsCall
  \/ RouteShapeCall
  \/ FacadeReturn

FrameSpec == FrameInit /\ [][FrameNext]_vars

\* calculateTripProgress applied to every trip and feed drawn.
ProgressInit ==
  /\ AtRest
  /\ \E stopTimes \in ProgressStopTimes, trip_updates \in ProgressFeeds :
       derive = Call("calculateTripProgress",
                     [tripId |-> ProgressTripId, stopTimes |-> stopTimes,
                      trip_updates |-> trip_updates])

ProgressNext == CalculateTripProgressCall

ProgressSpec == ProgressInit /\ [][ProgressNext]_vars

\* ===================================================================== claims
\* Steps of request p as seen from outside: it calls ensureGTFSData and
\* ensureRealtimeData (both facade operations modelled call them together),
\* and a call of a store returns a snapshot.
MakesCalls(p) == req'[p].pc # req[p].pc /\ req'[p].pc \in {"awaitAll", "awaitNested"}

StaticReturns(p) ==
  req'[p].s.st = "ok" /\ (req[p].s.st = "pending" \/ MakesCalls(p))

LiveReturns(p) ==
  req'[p].r.st = "ok" /\ (req[p].r.st = "pending" \/ MakesCalls(p))

\* What C1 says of a call c that returns after the call recorded in prev.
FreshnessRule(c, prev, ttl, stampAfter) ==
  prev.any =>
    /\ c.t0 - prev.stamp < ttl => c.id = prev.snap /\ stampAfter = prev.stamp /\ c.loaded = 0
    /\ c.t0 - prev.stamp > ttl => c.loaded = 1 /\ c.id # prev.snap

\* C1: among non-overlapping calls whose loads succeed, a call of a store made
\* within the TTL window of the call before it returns the same snapshot with
\* the same recorded load time and calls the loader zero times, and a call
\* made after the window has expired calls the loader exactly once.
C1_CacheFreshness ==
  [][\A p \in Requests :
       /\ StaticReturns(p) =>
            FreshnessRule(req'[p].s, lastCall.static, CACHE_DURATION, lastDataLoad')
       /\ LiveReturns(p) =>
            FreshnessRule(req'[p].r, lastCall.live, REALTIME_CACHE_DURATION,
                          lastRealtimeUpdate')]_vars

\* C1 witness: after the first snapshot expired, a call loaded snapshot 2, and
\* the next call, within the new window, returned it from the cache.
C1_Witness ==
  /\ gtfsData = 2
  /\ lastDataLoad > StartTime + CACHE_DURATION
  /\ \E p \in Requests : /\ req[p].pc = "awaitNested"
                         /\ req[p].s.st = "ok"
                         /\ req[p].s.loaded = 0
                         /\ req[p].s.id = 2
                         /\ req[p].g1 = 2

\* What a call made at time t decides, with the cache holding snapshot snap
\* loaded at stamp: it returns the cached snapshot without loading exactly
\* when `fresh` holds, and else starts a load.
DecisionRule(c, snap, fresh) ==
  /\ c.loaded = 0 <=> fresh
  /\ c.loaded = 0 => c.st = "ok" /\ c.id = snap
  /\ c.loaded = 1 => c.st = "pending" /\ c.id # snap

\* C2 as stated: a call returns the cached snapshot without loading iff a
\* snapshot exists and now - lastLoadTime < ttl; at now - lastLoadTime = ttl
\* it loads.
C2_AsStated ==
  [][\A p \in Requests : MakesCalls(p) =>
       /\ DecisionRule(req'[p].s, gtfsData,
                       gtfsData # NoSnapshot /\ now - lastDataLoad < CACHE_DURATION)
       /\ DecisionRule(req'[p].r, realtimeData.id,
                       realtimeData.id # NoSnapshot
                         /\ now - lastRealtimeUpdate < REALTIME_CACHE_DURATION)]_vars

\* C2 amended: a call returns the cached snapshot without loading iff a
\* snapshot exists and now - lastLoadTime <= ttl (300000 ms static, 30000 ms
\* live); it loads, and the load's result replaces the snapshot, for every
\* now with now - lastLoadTime > ttl.  At the boundary the cache is served.
C2_TtlBoundary ==
  [][\A p \in Requests :
       /\ MakesCalls(p) =>
            /\ DecisionRule(req'[p].s, gtfsData,
                            gtfsData # NoSnapshot /\ now - lastDataLoad <= 300000)
            /\ DecisionRule(req'[p].r, realtimeData.id,
                            realtimeData.id # NoSnapshot /\ now - lastRealtimeUpdate <= 30000)
       /\ req[p].s.st = "pending" /\ StaticReturns(p) =>
            gtfsData' = req[p].s.id /\ lastDataLoad' = req[p].s.t0
       /\ req[p].r.st = "pending" /\ LiveReturns(p) =>
            realtimeData'.id = req[p].r.id /\ lastRealtimeUpdate' = req[p].r.t0]_vars

\* C2 witness: a call made exactly ttl after the recorded load time was
\* served from the cache, for the static store.
C2_Witness ==
  \E p \in Requests : /\ req[p].s.st = "ok"
                       /\ req[p].s.loaded = 0
                       /\ gtfsData # NoSnapshot
                       /\ req[p].s.t0 - lastDataLoad = CACHE_DURATION

\* ------------------------------------------------------------- C3: refreshes
\* Requests p and q both wait for a load of the static (live) store that they
\* started on finding the same snapshot expired or missing.
SameStaticWindow(p, q) ==
  /\ p # q
  /\ req[p].s.st = "pending" /\ req[q].s.st = "pending"
  /\ req[p].s.seen = req[q].s.seen

SameLiveWindow(p, q) ==
  /\ p # q
  /\ req[p].r.st = "pending" /\ req[q].r.st = "pending"
  /\ req[p].r.seen = req[q].r.seen

\* C3 as stated: requests in flight at once that call the same ensure*
\* operation for the same expired window share one invocation of the loader.
C3_AsStated ==
  \A p, q \in Requests :
    /\ SameStaticWindow(p, q) => req[p].s.id = req[q].s.id
    /\ SameLiveWindow(p, q) => req[p].r.id = req[q].r.id

\* C3 amended: every ensure* call that finds its store expired or empty
\* invokes the loader once itself, so k overlapping calls for the same
\* expired window invoke the loader k times, once per call.
C3_OneLoadPerCall ==
  \A p, q \in Requests :
    /\ req[p].s.st = "pending" => req[p].s.loaded = 1 /\ req[p].s.id \in 1 .. loads.static
    /\ req[p].r.st = "pending" => req[p].r.loaded = 1 /\ req[p].r.id \in 1 .. loads.live
    /\ SameStaticWindow(p, q) => req[p].s.id # req[q].s.id
    /\ SameLiveWindow(p, q) => req[p].r.id # req[q].r.id

\* C3 witness: two requests wait for two loads of the static store, both
\* started on the same expired snapshot.
C3_Witness ==
  \E p, q \in Requests : /\ SameStaticWindow(p, q)
                         /\ req[p].s.seen # NoSnapshot
                         /\ req[p].s.id # req[q].s.id
                         /\ loads.static >= 3

\* ------------------------------------------------------ C4: consistent pair
\* C4 as stated: one getTripInfo result takes all its values from one static
\* snapshot and one live snapshot: the pair its stop schedule is built from is
\* the pair its trip, delay and progress were read from.
C4_AsStated ==
  \A p \in Requests :
    req[p].tool = "get_trip_info" /\ req[p].pc = "awaitNested" /\ Fulfilled(p) =>
      req[p].s.id = req[p].g1 /\ req[p].r.id = req[p].r1

\* ------------------------------------------------- C5: static load failure
\* C5: when loadGTFSData has failed, the ensureGTFSData call that awaited it
\* fails with that error, the request answers with no result but an error
\* response, and the response has error = true, the name of the operation and
\* the error's message.
C5_StaticFailure ==
  /\ \A p \in Requests :
       req[p].s.st = "err" =>
         /\ req[p].s.msg \in {LoadGTFSData(o, 1).error.message : o \in LoadOutcomes \ {"ok"}}
         /\ Rejected(p) /\ ~Fulfilled(p)
  /\ delivered.threw = "static" =>
       /\ delivered.kind = "error"
       /\ delivered.operation = OperationOf(delivered.tool)
       /\ delivered.operation # ""
       /\ delivered.message = delivered.thrown
       /\ delivered.message \in
            {LoadGTFSData(o, 1).error.message : o \in LoadOutcomes \ {"ok"}}

\* C5 witness: a get_trip_info request whose static load failed while the
\* cache held a snapshot has answered with the error response.
C5_Witness ==
  /\ delivered.threw = "static"
  /\ delivered.tool = "get_trip_info"
  /\ delivered.kind = "error"
  /\ delivered.message = "Error parsing stop_times.txt"
  /\ gtfsData # NoSnapshot

\* ---------------------------------------------------- C6: live feed failure
\* C6: fetchGTFSRealtimeData never fails its caller: when the request, the
\* status, the body or the decoding fails, it returns a snapshot with no trip
\* updates and last_updated set to the current time; no ensureRealtimeData
\* call throws and no response reports a live failure.
C6_FetchNeverFails ==
  /\ [](/\ \A p \in Requests : req[p].r.st # "err"
        /\ delivered.threw # "live")
  /\ [][lastFetch' # lastFetch /\ lastFetch'.failed =>
          /\ realtimeData'.id = lastFetch'.id
          /\ realtimeData'.empty
          /\ realtimeData'.last_updated = now'
          /\ \E p \in Requests : req[p].r.st = "pending" /\ req'[p].r.st # "err"]_vars

\* C6 witness: a fetch failed after time had passed, the cache holds its
\* empty snapshot stamped with the time of the failure, and a request has
\* answered with a result since.
C6_Witness ==
  /\ lastFetch.failed
  /\ realtimeData.id = lastFetch.id
  /\ realtimeData.empty
  /\ realtimeData.last_updated = now
  /\ now > StartTime
  /\ delivered.kind = "json"

\* --------------------------------------------- C7: static reads do not wait
\* C7 as stated: a live fetch that never completes does not keep an operation
\* that returns only static data from completing: a getActiveRoutesToday call
\* whose static snapshot is there answers.
C7_AsStated ==
  \A p \in Requests :
    (req[p].tool = "get_active_routes_today" /\ req[p].pc = "awaitAll"
       /\ req[p].s.st = "ok")
      ~> (req[p].pc = "idle")

\* ---------------------------------------------------- C8: independent stores
LiveRefreshEnds == lastFetch' # lastFetch

StaticRefreshEnds == \E p \in Requests : req[p].s.st = "pending" /\ req'[p].s.st # "pending"

\* C8: a refresh of the live store, successful or failed, changes neither the
\* static snapshot nor its load time, and a refresh of the static store,
\* successful or failed, changes neither the live snapshot nor its load time.
C8_IndependentStores ==
  [][/\ LiveRefreshEnds => UNCHANGED <<gtfsData, lastDataLoad>>
     /\ StaticRefreshEnds => UNCHANGED <<realtimeData, lastRealtimeUpdate>>]_vars

\* C8 witness: the live store has been refreshed a second time, after its
\* window expired, while the static store still holds its first snapshot and
\* load time.
C8_Witness ==
  /\ realtimeData.id = 2
  /\ lastRealtimeUpdate > StartTime
  /\ gtfsData = 1
  /\ lastDataLoad = StartTime

\* ----------------------------------------------------------- C9: trip match
\* u is a suffix of s: s is some string followed by u.
IsSuffix(u, s) == \E k \in 0 .. Len(s) : s = SubSeq(s, 1, k) \o u

\* Update i of the feed has a non-empty trip id that is a suffix of the
\* stop-time's trip id.
TripHit(i) ==
  \E t \in match.trip_updates[i].tripId : t # <<>> /\ IsSuffix(t, match.st.trip_id)

Live999 == [tripId |-> {<<"9", "9", "9">>}, stopTimeUpdate |-> {}]

Static128750 == <<"1", "2", "8", "7", "5", "0", "_", "1", ".", ".", "N", "0", "3", "R">>

\* C9: the matched update is the first update in feed order whose trip id is
\* non-empty and a suffix of the static trip id (equality included); an
\* update with an empty or absent id never matches, an id that is not a
\* trailing substring never matches (live "999" against "128750_1..N03R"),
\* and no update is matched when none qualifies.
C9_TripMatching ==
  /\ match.pc \in {"trip", "done"} =>
       /\ \A i \in match.realtimeUpdate :
            /\ i \in 1 .. Len(match.trip_updates)
            /\ TripHit(i)
            /\ \A j \in 1 .. i - 1 : ~TripHit(j)
       /\ match.realtimeUpdate = {} <=> \A i \in 1 .. Len(match.trip_updates) : ~TripHit(i)
       /\ Cardinality(match.realtimeUpdate) <= 1
  /\ FindTripUpdateFrom(<<Live999>>, Static128750, 1) = {}
  /\ FindTripUpdateFrom(<<Live999, [Live999 EXCEPT !.tripId = {Static128750}]>>,
                        Static128750, 1) = {2}

\* C9 witness: the first update has an empty trip id, the second is a proper
\* suffix of the static id and is matched.
C9_Witness ==
  /\ match.pc = "trip"
  /\ Len(match.trip_updates) = 2
  /\ match.trip_updates[1].tripId = {<<>>}
  /\ match.trip_updates[2].tripId = {<<"b">>}
  /\ match.st.trip_id = <<"a", "b">>
  /\ match.realtimeUpdate = {2}

\* ----------------------------------------------------------- C10: stop match
\* The list of the matched update, empty when there is none.
MatchedList ==
  IF match.realtimeUpdate = {} THEN <<>>
  ELSE LET l == match.trip_updates[CHOOSE i \in match.realtimeUpdate : TRUE].stopTimeUpdate
       IN IF l = {} THEN <<>> ELSE CHOOSE x \in l : TRUE

\* Entry i of the list has the stop-time's stop id, or has the stop-time's
\* stop sequence parsed as an integer.
StopHit(i) ==
  \/ MatchedList[i].stopId = {match.st.stop_id}
  \/ /\ ParseInt(match.st.stop_sequence) # {}
     /\ MatchedList[i].stopSequence = ParseInt(match.st.stop_sequence)

\* C10: the selected per-stop update is the first entry of the matched
\* update's list whose stop id equals the stop-time's stop id or whose stop
\* sequence equals the stop-time's stop sequence parsed as an integer; either
\* key is enough, and no entry is selected when no entry matches on a key.
C10_StopMatching ==
  match.pc = "done" =>
    /\ \A i \in match.stopUpdate :
         /\ i \in 1 .. Len(MatchedList)
         /\ StopHit(i)
         /\ \A j \in 1 .. i - 1 : ~StopHit(j)
    /\ match.stopUpdate = {} <=> \A i \in 1 .. Len(MatchedList) : ~StopHit(i)
    /\ Cardinality(match.stopUpdate) <= 1

\* C10 witness: the first entry matches on neither key, the second has
\* another stop id and the stop-time's sequence number, read from "2x", and
\* is selected.
C10_Witness ==
  /\ match.pc = "done"
  /\ match.st.stop_id = <<"a">>
  /\ match.st.stop_sequence = <<"2", "x">>
  /\ Len(MatchedList) = 2
  /\ MatchedList[1] = [stopId |-> {<<"b">>}, stopSequence |-> {1}]
  /\ MatchedList[2] = [stopId |-> {<<"b">>}, stopSequence |-> {2}]
  /\ match.stopUpdate = {2}

\* --------------------------------------------------- C11: no live match
Ran(op) == derive.op = op /\ derive.pc = "done"

\* The stop update handed to getRealtimeArrivalTime is missing or has no
\* arrival.
NoArrival == derive.in.stopTimeUpdate = {} \/ derive.in.stopTimeUpdate = {[arrival |-> {}]}

\* C11: for a stop-time with no stop update, or with a stop update that has
\* no arrival, getRealtimeArrivalTime returns the scheduled time verbatim,
\* isRealtime = false and no delay.
C11_NoLiveMatch ==
  Ran("getRealtimeArrivalTime") /\ NoArrival =>
    /\ derive.out.time = derive.in.scheduledTime
    /\ derive.out.isRealtime = FALSE
    /\ derive.out.delay = {}

\* C11 witness: a stop update without an arrival was handed in and the call
\* has returned the scheduled time.
C11_Witness ==
  /\ Ran("getRealtimeArrivalTime")
  /\ derive.in.stopTimeUpdate = {[arrival |-> {}]}
  /\ derive.out.time = <<"2", "3", ":", "5", "9", ":", "3", "0">>

\* ------------------------------------------------ C12: delay without time
\* C12 as stated: when the stop update has an arrival with a delay and no
\* absolute time, getRealtimeArrivalTime returns isRealtime = true and the
\* delay as formatted by formatDelay, for positive, negative and zero delays
\* (zero giving "On time").
C12_AsStated ==
  Ran("getRealtimeArrivalTime") =>
    \A u \in derive.in.stopTimeUpdate : \A a \in u.arrival :
      a.time = {} =>
        \A d \in a.delay :
          /\ derive.out.isRealtime = TRUE
          /\ derive.out.delay = {IF d = 0 THEN "On time"
                                 ELSE ToString(Abs(d) \div 60) \o "m "
                                        \o ToString(Abs(d) % 60)
                                        \o (IF d > 0 THEN "s late" ELSE "s early")}

\* ------------------------------------------------ C13: delay classification
\* C13: in a departure, delay_status is "scheduled" exactly when
\* delay_seconds is undefined, "on_time" exactly when it is 0, "late" exactly
\* when it is positive and "early" exactly when it is negative.
C13_DelayClassification ==
  Ran("departureDelay") =>
    LET seconds == derive.out.delay_seconds
        status  == derive.out.delay_status
    IN /\ status \in {"scheduled", "on_time", "late", "early"}
       /\ Cardinality(seconds) <= 1
       /\ status = "scheduled" <=> seconds = {}
       /\ status = "on_time" <=> seconds = {0}
       /\ status = "late" <=> \E d \in seconds : d > 0
       /\ status = "early" <=> \E d \in seconds : d < 0
       /\ \A u \in derive.in : \A e \in u.departure : seconds = e.delay

\* C13 witness: a departure with a delay of 0 and no time was classified
\* on_time.
C13_Witness ==
  /\ Ran("departureDelay")
  /\ derive.in = {[departure |-> {[time |-> {}, delay |-> {0}]}]}
  /\ derive.out.delay_status = "on_time"

\* ------------------------------------------------------- C14: formatDelay
\* C14: formatDelay(0) is "On time"; for d > 0 it is "<m>m <s>s late" and for
\* d < 0 "<m>m <s>s early", with 0 <= s <= 59 and 60 * m + s = |d|; so
\* formatDelay(125) = "2m 5s late" and formatDelay(-65) = "1m 5s early".
C14_FormatDelay ==
  /\ Ran("formatDelay") =>
       LET d == derive.in
       IN /\ d = 0 => derive.out = "On time"
          /\ d # 0 =>
               \E m \in 0 .. Abs(d), s \in 0 .. 59 :
                 /\ 60 * m + s = Abs(d)
                 /\ derive.out = ToString(m) \o "m " \o ToString(s)
                                   \o (IF d > 0 THEN "s late" ELSE "s early")
  /\ FormatDelay(125) = "2m 5s late"
  /\ FormatDelay(-65) = "1m 5s early"

\* C14 witness: formatDelay(-65) has returned "1m 5s early".
C14_Witness ==
  /\ Ran("formatDelay")
  /\ derive.in = -65
  /\ derive.out = "1m 5s early"
\* ------------------------------------------------------ C15..C17: progress
\* The stop-times of the trip of a calculateTripProgress call, in stop order,
\* the per-stop update lists of the trip update matched to it, and the index
\* of the current stop the scan arrives at.
ProgressRows == SelectSeq(derive.in.stopTimes, LAMBDA st : st.trip_id = derive.in.tripId)

ProgressLists ==
  UNION {derive.in.trip_updates[u].stopTimeUpdate :
           u \in FindTripUpdateFrom(derive.in.trip_updates, derive.in.tripId, 1)}

CurrentIndexOf(list) == ScanCurrentStop(ProgressRows, list, 1, 0)

\* C15 as stated: a progress percentage that calculateTripProgress reports
\* as a number is at least 0 and at most 100, whatever the distances of the
\* stop-times, including distances that do not increase along the trip.
C15_AsStated ==
  Ran("calculateTripProgress") =>
    \A p \in derive.out.progress_percentage.value : 0 <= p /\ p <= 100

\* C16 as stated: when no trip update matches the trip, or the matched update
\* has no per-stop updates (the list is absent, or present and empty), the
\* TripInfo has progress_percentage, current_stop and next_stop undefined.
C16_AsStated ==
  Ran("calculateTripProgress") =>
    ((\A list \in ProgressLists : list = <<>>) =>
       /\ ~derive.out.progress_percentage.defined
       /\ derive.out.current_stop = {}
       /\ derive.out.next_stop = {})

\* C17 as stated: when progress is computed for a trip of at least two stops
\* and the distance of the current, the first or the last stop is absent or
\* is not a number, the progress is round(currentIndex / (stopCount - 1) * 100)
\* and never NaN.
C17_AsStated ==
  Ran("calculateTripProgress") =>
    \A list \in ProgressLists :
      LET n      == Len(ProgressRows)
          index  == CurrentIndexOf(list)
          Bad(i) == \A d \in ProgressRows[i].shape_distance_traveled : ParseFloat(d) = {}
      IN (n >= 2 /\ (Bad(index + 1) \/ Bad(1) \/ Bad(n))) =>
           /\ derive.out.progress_percentage.defined
           /\ derive.out.progress_percentage.value = {(2 * index * 100 + (n - 1)) \div (2 * (n - 1))}
\* ------------------------------------------------------- C18: route listing
\* C18: getActiveRoutesToday returns one entry per route of the snapshot, in
\* ascending order of route_short_name (as localeCompare orders them); each
\* entry's stop_count is the number of distinct stop ids in the stop-times of
\* the route's trips, its trip_count the number of the route's trips, and
\* is_active holds exactly when a trip of the route has a service active
\* today.
C18_RouteListing ==
  Ran("getActiveRoutesToday") =>
    LET gtfs == derive.in
        out  == derive.out
        TripsOf(routeId) == {i \in DOMAIN gtfs.trips : gtfs.trips[i].route_id = routeId}
        TripIdsOf(routeId) == {gtfs.trips[i].trip_id : i \in TripsOf(routeId)}
        StopsOf(routeId) ==
          {stop \in {gtfs.stopTimes[i].stop_id : i \in DOMAIN gtfs.stopTimes} :
             \E i \in DOMAIN gtfs.stopTimes :
               gtfs.stopTimes[i].stop_id = stop /\ gtfs.stopTimes[i].trip_id \in TripIdsOf(routeId)}
        ActiveToday(service_id) ==
          \E c \in DOMAIN gtfs.calendar :
            /\ gtfs.calendar[c].service_id = service_id
            /\ gtfs.calendar[c].start_date <= Today.date
            /\ Today.date <= gtfs.calendar[c].end_date
            /\ gtfs.calendar[c].wednesday = "1"
    IN /\ Len(out) = Len(gtfs.routes)
       /\ \A r \in DOMAIN gtfs.routes :
            Cardinality({k \in DOMAIN out : out[k].route_id = gtfs.routes[r].route_id}) = 1
       /\ \A k \in DOMAIN out :
            \E r \in DOMAIN gtfs.routes :
              /\ out[k].route_id = gtfs.routes[r].route_id
              /\ out[k].route_short_name = gtfs.routes[r].route_short_name
       /\ \A j, k \in DOMAIN out :
            j < k => ~LocaleBefore(out[k].route_short_name, out[j].route_short_name)
       /\ \A k \in DOMAIN out :
            /\ out[k].stop_count = Cardinality(StopsOf(out[k].route_id))
            /\ out[k].trip_count = Cardinality(TripsOf(out[k].route_id))
            /\ out[k].is_active <=>
                 \E i \in TripsOf(out[k].route_id) : ActiveToday(gtfs.trips[i].service_id)

\* C18 witness: a listing of two routes given in descending order of short
\* name, where the first listed route has two trips, two stop-time rows at
\* one stop and no service active today, and the second is active.
C18_Witness ==
  /\ Ran("getActiveRoutesToday")
  /\ Len(derive.out) = 2
  /\ derive.in.routes[1].route_short_name = <<"B">>
  /\ derive.out[1].route_short_name = <<"a">>
  /\ derive.out[1].trip_count = 2
  /\ derive.out[1].stop_count = 1
  /\ Len(derive.in.stopTimes) = 2
  /\ ~derive.out[1].is_active
\* ------------------------------------------------ C19: upcoming departures
\* The stop-times of the stop asked for that depart at or after the current
\* time string, as positions in the stop-times table.
Candidates ==
  {i \in DOMAIN derive.in.stopTimes :
     /\ derive.in.stopTimes[i].stop_id = derive.in.stopId
     /\ ~StringBefore(derive.in.stopTimes[i].departure_time, derive.in.currentTimeStr)}

\* C19: getUpcomingDepartures(stopId, limit) returns only stop-times of that
\* stop whose departure_time is >= the current time string, each at most
\* once, in ascending order of departure_time, at most limit of them, and
\* they are the limit earliest: all candidates when there are no more than
\* limit, else limit of them with no candidate left out departing earlier
\* than one returned.
C19_UpcomingDepartures ==
  Ran("getUpcomingDepartures") =>
    LET stopTimes == derive.in.stopTimes
        out       == derive.out
        IsListed(i) == \E k \in DOMAIN out : out[k].trip_id = stopTimes[i].trip_id
    IN /\ \A k \in DOMAIN out :
            \E i \in Candidates :
              /\ out[k].trip_id = stopTimes[i].trip_id
              /\ out[k].scheduled_departure = stopTimes[i].departure_time
       /\ \A j, k \in DOMAIN out : j # k => out[j].trip_id # out[k].trip_id
       /\ \A j, k \in DOMAIN out :
            j < k => ~StringBefore(out[k].scheduled_departure, out[j].scheduled_departure)
       /\ Len(out) = Min(derive.in.limit, Cardinality(Candidates))
       /\ \A i \in Candidates :
            ~IsListed(i) =>
              \A k \in DOMAIN out :
                ~StringBefore(stopTimes[i].departure_time, out[k].scheduled_departure)

\* C19 witness: of three candidates given latest first, with limit 2, the
\* two earliest were returned after a departure in the past and the latest
\* candidate was left out.
C19_Witness ==
  /\ Ran("getUpcomingDepartures")
  /\ derive.in.limit = 2
  /\ derive.in.currentTimeStr = Hms("0", "8", "0")
  /\ Cardinality(Candidates) = 3
  /\ derive.in.stopTimes[1].departure_time = Hms("2", "4", "1")
  /\ Len(derive.out) = 2
  /\ derive.out[1].scheduled_departure = Hms("0", "8", "0")
  /\ derive.out[2].scheduled_departure = Hms("0", "8", "3")
\* ----------------------------------------------------------- C20: live trips
\* C20: getLiveTrips(routeFilter, limit) returns at most limit trips, and
\* every trip it returns is a trip of the static snapshot whose service is
\* active today, whose route matches the filter when one is given (the
\* route's short name contains it, case ignored, or the route's id equals
\* it), and has has_realtime_data = true.
C20_LiveTrips ==
  Ran("getLiveTrips") =>
    LET gtfs      == derive.in.gtfs
        liveTrips == derive.out.liveTrips
        ActiveToday(service_id) ==
          \E c \in DOMAIN gtfs.calendar :
            /\ gtfs.calendar[c].service_id = service_id
            /\ gtfs.calendar[c].start_date <= Today.date
            /\ Today.date <= gtfs.calendar[c].end_date
            /\ gtfs.calendar[c].wednesday = "1"
        Matches(route_id, f) ==
          \E r \in DOMAIN gtfs.routes :
            /\ gtfs.routes[r].route_id = route_id
            /\ \/ route_id = f
               \/ \E k \in 0 .. Len(gtfs.routes[r].route_short_name) - Len(f) :
                    \A n \in 1 .. Len(f) :
                      LowerChar(gtfs.routes[r].route_short_name[k + n]) = LowerChar(f[n])
    IN /\ Len(liveTrips) <= derive.in.limit
       /\ \A k \in DOMAIN liveTrips :
            /\ \E i \in DOMAIN gtfs.trips :
                 /\ gtfs.trips[i].trip_id = liveTrips[k].trip_id
                 /\ gtfs.trips[i].route_id = liveTrips[k].route_id
                 /\ ActiveToday(gtfs.trips[i].service_id)
            /\ liveTrips[k].is_active
            /\ \A f \in derive.in.routeFilter : Matches(liveTrips[k].route_id, f)
            /\ liveTrips[k].has_realtime_data = TRUE

\* C20 witness: a call with filter "b" and limit 2 found two trips of the
\* route "aB" with live data, and returned only the first because the live
\* snapshot read for the second no longer had an update for it.
C20_Witness ==
  /\ Ran("getLiveTrips")
  /\ derive.in.routeFilter = {<<"b">>}
  /\ derive.in.limit = 2
  /\ Len(TripsWithRealtimeData(derive.in.gtfs, derive.in.realtime, derive.in.routeFilter)) = 2
  /\ Len(derive.out.liveTrips) = 1
  /\ derive.out.liveTrips[1].trip_id = <<"t", "1">>
  /\ derive.out.liveTrips[1].route_id = <<"r", "1">>
\* ------------------------------------------------------- C21: route shape
\* C21: getRouteShape returns null for a route id that equals no route id and
\* (case ignored) no route short name, and every result that is not null has
\* at least one coordinate, so a route with no trips, no shape id or no
\* shape points gets null and not an empty shape.
C21_RouteShape ==
  Ran("getRouteShape") =>
    LET gtfs    == derive.in.gtfs
        routeId == derive.in.routeId
        Known   == \E r \in DOMAIN gtfs.routes :
                     \/ gtfs.routes[r].route_id = routeId
                     \/ /\ Len(gtfs.routes[r].route_short_name) = Len(routeId)
                        /\ \A n \in DOMAIN routeId :
                             LowerChar(gtfs.routes[r].route_short_name[n]) = LowerChar(routeId[n])
    IN /\ ~Known => derive.out = {}
       /\ \A shape \in derive.out :
            /\ Len(shape.coordinates) >= 1
            /\ \E t \in DOMAIN gtfs.trips :
                 /\ gtfs.trips[t].route_id = shape.route_id
                 /\ \E id \in gtfs.trips[t].shape_id :
                      /\ id # ""
                      /\ Len(shape.coordinates) =
                           Cardinality({p \in DOMAIN gtfs.shapes : gtfs.shapes[p].shape_id = id})

\* C21 witness: for a route named by its short name in another case, whose
\* first trip has an empty shape id and whose second trip has shape h1, the
\* two points of h1 given in descending sequence came back in ascending
\* sequence.
C21_Witness ==
  /\ Ran("getRouteShape")
  /\ derive.in.routeId = <<"A", "b">>
  /\ Len(derive.in.gtfs.trips) = 2
  /\ derive.in.gtfs.trips[1].shape_id = {""}
  /\ derive.in.gtfs.trips[2].shape_id = {"h1"}
  /\ \E shape \in derive.out : shape.coordinates = <<<<{2}, {7}>>, <<{1}, {7}>>>>
\* --------------------------------------------------------- C22: not found
\* Whether some row of the tool's table has the id asked for.
IdKnown ==
  LET gtfs == derive.in.gtfs
      id   == derive.in.id
  IN CASE derive.in.tool = "get_route_info" ->
            \E i \in DOMAIN gtfs.routes : gtfs.routes[i].route_id = id
       [] derive.in.tool = "get_stop_info" ->
            \E i \in DOMAIN gtfs.stops : gtfs.stops[i].stop_id = id
       [] derive.in.tool = "get_trip_info" ->
            \E i \in DOMAIN gtfs.trips : gtfs.trips[i].trip_id = id

\* Whether the id asked for is a part, case ignored, of string str.
IdWithin(str) ==
  LET id == derive.in.id
  IN \E k \in 0 .. Len(str) - Len(id) :
       \A n \in 1 .. Len(id) : LowerChar(str[k + n]) = LowerChar(id[n])

\* Whether the handler's second lookup finds a row: a route whose short name
\* is the id with case ignored, a stop whose name, id or code contains it.
FoundOtherwise ==
  LET gtfs == derive.in.gtfs
      id   == derive.in.id
  IN CASE derive.in.tool = "get_route_info" ->
            \E i \in DOMAIN gtfs.routes :
              /\ Len(gtfs.routes[i].route_short_name) = Len(id)
              /\ IdWithin(gtfs.routes[i].route_short_name)
       [] derive.in.tool = "get_stop_info" ->
            \E i \in DOMAIN gtfs.stops :
              \/ IdWithin(gtfs.stops[i].stop_name)
              \/ IdWithin(gtfs.stops[i].stop_id)
              \/ \E code \in gtfs.stops[i].stop_code : IdWithin(code)
       [] derive.in.tool = "get_trip_info" -> FALSE

\* C22 as stated: for an id that no route, stop or trip has, the facade
\* operation returns null and, the load having succeeded, the tool answers
\* with a response of type not_found.
C22_AsStated ==
  Ran("lookup") /\ derive.in.outcome = "ok" /\ ~IdKnown =>
    /\ derive.out.facade = {}
    /\ derive.out.response.kind = "not_found"

\* C22 amended: for an id that no route, stop or trip has, the facade
\* operation returns null; the tool answers with a response of type
\* not_found when its second lookup (route short name, stop search) finds
\* nothing either, and with the row found otherwise; a failed load gives the
\* error response, which is of another type, with the operation and message.
C22_NotFound ==
  Ran("lookup") =>
    /\ derive.in.outcome = "ok" /\ ~IdKnown =>
         /\ derive.out.facade = {}
         /\ derive.out.response.kind = IF FoundOtherwise THEN "json" ELSE "not_found"
    /\ derive.in.outcome = "ok" /\ IdKnown =>
         /\ derive.out.facade # {}
         /\ derive.out.response.kind = "json"
    /\ derive.in.outcome # "ok" =>
         /\ derive.out.response.kind = "error"
         /\ derive.out.response.operation = OperationOf(derive.in.tool)
         /\ derive.out.response.message # ""
    /\ derive.out.response.kind = "not_found" =>
         derive.out.response.operation = "" /\ derive.out.response.message = ""

\* C22 witness: get_stop_info asked for an id that no stop has and that no
\* stop's name, id or code contains, with two stops loaded, answered
\* not_found.
C22_Witness ==
  /\ Ran("lookup")
  /\ derive.in.tool = "get_stop_info"
  /\ derive.in.id = <<"b">>
  /\ derive.in.outcome = "ok"
  /\ Len(derive.in.gtfs.stops) = 2
  /\ derive.out.facade = {}
  /\ derive.out.response.kind = "not_found"
\* ------------------------------------------------------ C23: progress scan
\* Whether the live match of the stop at position i of a scanned trip has an
\* arrival (a departure) time in the past.
ArrivedAt(i) ==
  EventInPast(FindStopUpdateFrom(derive.in.list, derive.in.tripStopTimes[i], 1),
              derive.in.list, "arrival")

DepartedFrom(i) ==
  EventInPast(FindStopUpdateFrom(derive.in.list, derive.in.tripStopTimes[i], 1),
              derive.in.list, "departure")

\* The index the scan has reached when it has passed the stops before
\* position i without terminating: the stop after the last stop departed
\* from, bounded at the last index, or 0 when there is none.
AdvancedBefore(i) ==
  LET n        == Len(derive.in.tripStopTimes)
      departed == {j \in 1 .. i - 1 : DepartedFrom(j)}
  IN IF departed = {} THEN 0
     ELSE LET last == CHOOSE j \in departed : \A k \in departed : k <= j
          IN IF last < n - 1 THEN last ELSE n - 1

FilteredCandidates ==
  LET gtfs == derive.in.gtfs
      NameOf(i) ==
        CHOOSE name \in {gtfs.routes[r].route_short_name : r \in DOMAIN gtfs.routes} :
          \E t \in DOMAIN gtfs.trips, r \in DOMAIN gtfs.routes :
            /\ gtfs.trips[t].trip_id = gtfs.stopTimes[i].trip_id
            /\ gtfs.routes[r].route_id = gtfs.trips[t].route_id
            /\ gtfs.routes[r].route_short_name = name
  IN {i \in DOMAIN gtfs.stopTimes :
        /\ gtfs.stopTimes[i].stop_id = derive.in.stop_id
        /\ ~StringBefore(gtfs.stopTimes[i].departure_time, derive.in.currentTimeStr)
        /\ \A f \in derive.in.route_filter :
             \E k \in 0 .. Len(NameOf(i)) - Len(f) :
               \A n \in 1 .. Len(f) : LowerChar(NameOf(i)[k + n]) = LowerChar(f[n])}

\* C24 as stated: get_upcoming_departures with a route filter returns the
\* limit earliest of all future departures of the stop whose route short
\* name contains the filter, in ascending order of scheduled departure: all
\* of them when there are no more than limit, so that no matching departure
\* is dropped because departures of other routes precede it.
C24_AsStated ==
  Ran("get_upcoming_departures") =>
    LET stopTimes == derive.in.gtfs.stopTimes
        out       == derive.out
    IN /\ Len(out) = Min(derive.in.limit, Cardinality(FilteredCandidates))
       /\ \A k \in DOMAIN out :
            \E i \in FilteredCandidates :
              /\ out[k].trip_id = stopTimes[i].trip_id
              /\ out[k].scheduled_departure = stopTimes[i].departure_time
       /\ \A j, k \in DOMAIN out :
            j < k => /\ out[j].trip_id # out[k].trip_id
                     /\ ~StringBefore(out[k].scheduled_departure, out[j].scheduled_departure)
       /\ \A i \in FilteredCandidates :
            (\A k \in DOMAIN out : out[k].trip_id # stopTimes[i].trip_id) =>
              \A k \in DOMAIN out :
                ~StringBefore(stopTimes[i].departure_time, out[k].scheduled_departure)
\* ----------------------------------------------------------- C25: has_passed
\* String a is lexicographically less than string b, by code unit.
LexLess(a, b) ==
  \E k \in 1 .. Len(b) :
    /\ \A n \in 1 .. k - 1 : n <= Len(a) /\ a[n] = b[n]
    /\ Len(a) < k \/ CodeUnit(a[k]) < CodeUnit(b[k])

\* C25: has_passed of a stop in a trip schedule is true exactly when its
\* scheduled departure string is lexicographically less than the current
\* wall-clock string, also for departures of 24:00:00 and later; and at one
\* clock reading a stop-time of the schedule is among the candidates of
\* getUpcomingDepartures for its stop exactly when its has_passed is false.
C25_HasPassed ==
  Ran("getTripSchedule") =>
    \A k \in DOMAIN derive.out.stop_schedule :
      LET stop == derive.out.stop_schedule[k]
      IN /\ stop.has_passed <=> LexLess(stop.scheduled_departure, derive.in.currentTimeStr)
         /\ ~stop.has_passed <=>
              \E d \in DOMAIN derive.out.departures :
                /\ derive.out.departures[d].trip_id = derive.in.tripId
                /\ derive.out.departures[d].scheduled_departure = stop.scheduled_departure

\* C25 witness: at 23:50:00 a schedule has a stop departing at 24:10:00 that
\* has not passed and a stop departing at 08:00:00 that has; at most the
\* first is among the upcoming departures.
C25_Witness ==
  /\ Ran("getTripSchedule")
  /\ derive.in.currentTimeStr = Hms("2", "3", "5")
  /\ \E j, k \in DOMAIN derive.out.stop_schedule :
       /\ derive.out.stop_schedule[j].scheduled_departure = Hms("2", "4", "1")
       /\ ~derive.out.stop_schedule[j].has_passed
       /\ derive.out.stop_schedule[k].scheduled_departure = Hms("0", "8", "0")
       /\ derive.out.stop_schedule[k].has_passed
  /\ Len(derive.out.departures) = 1

\* ------------------------------------------------------ C26: stop order
\* C26: the stop_schedule of a trip (and the list that calculateTripProgress
\* walks, built by the same filter and sort) is in ascending order of the
\* number stop_sequence denotes, whatever the row order of the stop-times
\* (10 comes after 9), and holds exactly the stop-times whose trip id is the
\* trip id asked for, each once.
C26_StopOrder ==
  (derive.op = "getTripSchedule" /\ derive.pc # "call") =>
    LET stopTimes == derive.in.stopTimes
        schedule  == derive.out.stop_schedule
        OfTrip    == {i \in DOMAIN stopTimes : stopTimes[i].trip_id = derive.in.tripId}
        Number(str) == IF Len(str) = 1 THEN DigitValue(str[1])
                       ELSE 10 * DigitValue(str[1]) + DigitValue(str[2])
    IN /\ Len(schedule) = Cardinality(OfTrip)
       /\ \A i \in OfTrip :
            \E k \in DOMAIN schedule :
              /\ schedule[k].scheduled_arrival = stopTimes[i].arrival_time
              /\ schedule[k].stop_sequence = {Number(stopTimes[i].stop_sequence)}
              /\ schedule[k].scheduled_departure = stopTimes[i].departure_time
       /\ \A j, k \in DOMAIN schedule :
            j < k => \A x \in schedule[j].stop_sequence, y \in schedule[k].stop_sequence : x <= y

\* C26 witness: the rows of a trip with sequences 10, 9 and 2, given in that
\* order, came back as 2, 9, 10.
C26_Witness ==
  /\ derive.op = "getTripSchedule" /\ derive.pc = "schedule"
  /\ Len(derive.in.stopTimes) = 3
  /\ derive.in.stopTimes[1].stop_sequence = <<"1", "0">>
  /\ derive.in.stopTimes[2].stop_sequence = <<"9">>
  /\ Len(derive.out.stop_schedule) = 3
  /\ derive.out.stop_schedule[1].stop_sequence = {2}
  /\ derive.out.stop_schedule[2].stop_sequence = {9}
  /\ derive.out.stop_schedule[3].stop_sequence = {10}
\* ------------------------------------------------- C27: tables unchanged
\* C27: no facade operation (getSystemInfo, getActiveRoutesToday,
\* getStopInfo, getUpcomingDepartures, getTripInfo, searchStops,
\* getLiveTrips, getRouteShape) changes the content or the row order of any
\* table of the cached static or live snapshot: after every operation each
\* table is the table that was loaded.
C27_TablesUnchanged ==
  derive.op = "facade" =>
    \A table \in TableRefs : derive.out.heap[table] = derive.in.loaded[table]

\* C27 witness: an operation has sorted an array of rows of a table into an
\* order that is not the table's (two rows that the table has in one order
\* are in the other order in the array), and the table is as loaded.
C27_Witness ==
  /\ derive.op = "facade" /\ derive.pc = "done"
  /\ derive.out.operation = "getUpcomingDepartures"
  /\ \E ref \in DOMAIN derive.out.heap :
       /\ ref \notin TableRefs
       /\ Len(derive.out.heap[ref]) = 2
       /\ \E i, j \in DOMAIN derive.in.loaded[Tables.stopTimes] :
            /\ i < j
            /\ derive.out.heap[ref][1] = derive.in.loaded[Tables.stopTimes][j]
            /\ derive.out.heap[ref][2] = derive.in.loaded[Tables.stopTimes][i]
  /\ derive.out.heap[Tables.stopTimes] = derive.in.loaded[Tables.stopTimes]
\* ------------------------------------------- C28: load times never decrease
\* C28: under every interleaving of concurrent ensureGTFSData and
\* ensureRealtimeData calls, the recorded load time of a store (lastDataLoad,
\* lastRealtimeUpdate) never decreases: no step moves it back behind the
\* time of a load already recorded.
C28_AsStated ==
  [][lastDataLoad' >= lastDataLoad /\ lastRealtimeUpdate' >= lastRealtimeUpdate]_vars
\* ------------------------------------------- C29: failed static load
\* The static load of request p ends in this step without its snapshot
\* becoming the cached one.
StaticLoadFails(p) ==
  req[p].s.st = "pending" /\ req'[p].s.st # "pending" /\ gtfsData' # req[p].s.id

\* C29: a failed static load leaves gtfsData and lastDataLoad as they were
\* before the call; the call is rejected and returns no snapshot, so an
\* expired earlier snapshot is never returned in place of the error and the
\* response is the error response; and the failure is not cached: the next
\* ensureGTFSData call (the one a tool call makes first after that response)
\* calls loadGTFSData again.
C29_FailedStaticLoad ==
  /\ [][\A p \in Requests :
          /\ StaticLoadFails(p) =>
               /\ gtfsData' = gtfsData /\ gtfsData' = req[p].s.seen
               /\ lastDataLoad' = lastDataLoad
               /\ req'[p].s.st = "err" /\ req'[p].s.id = NoSnapshot
               /\ StaleStatic(now)'
          /\ req[p].pc = "idle" /\ MakesCalls(p) /\ delivered.threw = "static" =>
               req'[p].s.st = "pending" /\ req'[p].s.loaded = 1]_vars
  /\ [](delivered.threw = "static" => delivered.kind = "error")

\* C29 witness: the cache holds an expired snapshot, recorded as the last
\* successful call left it, and the call whose load failed has been answered
\* with the error response.
C29_Witness ==
  /\ delivered.threw = "static"
  /\ delivered.kind = "error"
  /\ gtfsData # NoSnapshot
  /\ now - lastDataLoad > CACHE_DURATION
  /\ lastCall.static = [any |-> TRUE, snap |-> gtfsData, stamp |-> lastDataLoad]
  /\ \A p \in Requests : Idle(p)
\* ------------------------------------------- C30: after a failed live fetch
\* The cached live snapshot is the empty feed of the fetch that ended last,
\* and that fetch failed; its last_updated is the time of the failure.
FailedFeedCached == lastFetch.failed /\ realtimeData.id = lastFetch.id

\* C30 as stated: a failed live fetch stores the empty-feed snapshot in
\* place of whatever snapshot was cached; an ensureRealtimeData call made
\* during the 30 seconds that follow the failure returns that snapshot and
\* starts no fetch, and a call made after those 30 seconds starts one.
C30_AsStated ==
  /\ [][lastFetch' # lastFetch /\ lastFetch'.failed =>
          realtimeData'.id = lastFetch'.id /\ realtimeData'.empty]_vars
  /\ [][\A p \in Requests :
          MakesCalls(p) /\ FailedFeedCached =>
            IF now - realtimeData.last_updated <= REALTIME_CACHE_DURATION
            THEN req'[p].r.st = "ok" /\ req'[p].r.id = realtimeData.id /\ req'[p].r.loaded = 0
            ELSE req'[p].r.st = "pending" /\ req'[p].r.loaded = 1]_vars
====
